---- MODULE Spec2Model ----
(***************************************************************************)
(* Model of the MatchMyStack backend core: the resume text extractor and   *)
(* parse entry point (app/services/resume_parser.py), the upload-and-match *)
(* request (app/api/routes/match.py), the lazily loaded embedding model    *)
(* (app/services/embedding_engine.py) and the scoring engine               *)
(* (app/services/matching_engine.py).                                      *)
(*                                                                         *)
(* Strings are modelled by their shape: an origin tag (which producer made *)
(* them), the number of whitespace characters around the core and the      *)
(* number of characters of the core.  str.strip() removes the surrounding  *)
(* whitespace, len() counts both.  A byte string is a run of whitespace    *)
(* bytes, a run of valid non-blank bytes and a run of bytes that are not   *)
(* valid UTF-8; slicing cuts the runs in that order and the lossy decode   *)
(* drops the invalid run.                                                  *)
(*                                                                         *)
(* Real numbers are fixed point: a score s is the integer s * Scale.       *)
(***************************************************************************)
EXTENDS Integers, Sequences, FiniteSets, TLC

VARIABLES
    entry,          \* which public operation this run calls
    lib,            \* PDF_LIBRARY / self.parsing_library, fixed at import
    pdf_bytes,      \* the bytes argument (the uploaded content)
    text_arg,       \* parse_resume's text argument
    pc,             \* position of the run
    xbytes,         \* extract_text_from_pdf: pdf_bytes after the size cap
    parsing_note,   \* extract_text_from_pdf: local parsing_note
    tried,          \* decoders attempted so far, in order
    xres,           \* result of extract_text_from_pdf
    parsed,         \* result of parse_resume
    http,           \* status of the upload_and_match response (0: none yet)
    user_profile,   \* upload_and_match: profile built from the parse
    db,             \* Project rows: id -> stored embedding
    dirty,          \* Project objects changed in the session, not committed
    candidates,     \* upload_and_match: candidate dicts prepared so far
    todo,           \* upload_and_match: projects still to prepare
    matches_list,   \* upload_and_match: Match objects produced
    engine_ok,      \* MatchingEngineWrapper: the EmbeddingEngine was loaded
    top_k,          \* upload_and_match: the top_k query parameter
    model_,         \* embedding_engine._model (0 is None)
    built,          \* number of SentenceTransformer constructions so far
    tpc,            \* get_model: position of each caller
    seen,           \* get_model: what each caller read or constructed
    got,            \* get_model: handle returned to each caller
    m_user,         \* match_user_to_project: user_data
    m_proj,         \* match_user_to_project: project_data
    m_out,          \* match_user_to_project: sub-scores and Match produced
    c_op,           \* a single call: the function called
    c_in,           \* a single call: its arguments
    c_out,          \* a single call: what it returned or raised
    active_connections, \* ConnectionManager: room_id -> list of sockets
    h_pc,           \* websocket_endpoint: position of the handler of each socket
    h_room,         \* websocket_endpoint: room_id of each socket
    b_idx,          \* broadcast: position of the loop over the room's list
    stale_sends,    \* sockets a broadcast sent to after their handler ended
    rows,           \* matches table: the committed Match rows, by id
    r_pc,           \* handle_project_action: position of each request
    r_in,           \* handle_project_action: user, project_id and action
    r_seen,         \* handle_project_action: existing_match as the session loaded it
    r_status,       \* handle_project_action: status of the response (0: none yet)
    last_commit     \* (user, project) -> action of the request that committed last

xvars == <<entry, lib, pdf_bytes, text_arg, pc, xbytes, parsing_note, tried,
           xres, parsed, http, user_profile, db, dirty, candidates, todo,
           matches_list, engine_ok, top_k>>
gvars == <<model_, built, tpc, seen, got>>
mvars == <<m_user, m_proj, m_out>>
cvars == <<c_op, c_in, c_out>>
wvars == <<active_connections, h_pc, h_room, b_idx, stale_sends>>
avars == <<rows, r_pc, r_in, r_seen, r_status, last_commit>>
vars == <<xvars, gvars, mvars, cvars, wvars, avars>>

None == "None"

Min(a, b) == IF a <= b THEN a ELSE b
Max(a, b) == IF a >= b THEN a ELSE b

\* The outcome of a call: not made yet, a returned value, or an exception.
NotCalled == [called |-> FALSE]
Returns(value) == [called |-> TRUE, raised |-> FALSE, value |-> value]
Raises(exception) == [called |-> TRUE, raised |-> TRUE, value |-> exception]

----------------------------------------------------------------------------
(* Program constants.                                                      *)

MAX_PDF_BYTES == 5 * 1024 * 1024
MIN_FALLBACK_CHARS == 30
MIN_PARSE_CHARS == 40
RAW_TEXT_ERROR_PREVIEW == 500

(* Bounds of the model.                                                    *)
Slack == 1      \* lengths are taken within Slack of every threshold
MaxWs == 1      \* surrounding whitespace of a string
MaxBad == 1     \* invalid bytes of a byte string

----------------------------------------------------------------------------
(* Strings and byte strings.                                               *)

EmptyStr == [o |-> "", ws |-> 0, n |-> 0]
Str(o, ws, n) == IF ws + n = 0 THEN EmptyStr ELSE [o |-> o, ws |-> ws, n |-> n]
StrLen(s) == s.ws + s.n
Strip(s) == Str(s.o, 0, s.n)
Prefix(s, k) == IF StrLen(s) <= k THEN s ELSE Str(s.o, Min(s.ws, k), Min(s.n, k - Min(s.ws, k)))

Bytes(ws, n, bad) == [ws |-> ws, n |-> n, bad |-> bad]
BytesLen(b) == b.ws + b.n + b.bad
Slice(b, cap) ==
    LET w == Min(b.ws, cap)
        c == Min(b.n, cap - w)
    IN  Bytes(w, c, Min(b.bad, cap - w - c))
DecodeIgnore(b) == Str("utf8", b.ws, b.n)

Around(t) == {k \in (t - Slack)..(t + Slack) : k >= 0}
TextLens == Around(0) \cup Around(MIN_FALLBACK_CHARS) \cup Around(MIN_PARSE_CHARS)
ByteLens == TextLens \cup Around(MAX_PDF_BYTES)

ByteInputs == {Bytes(w, n, b) : w \in 0..MaxWs, n \in ByteLens, b \in 0..MaxBad}
              \cup {Bytes(w, n, 0) : w \in Around(MAX_PDF_BYTES), n \in Around(MIN_FALLBACK_CHARS)}
TextInputs == {Str("arg", w, n) : w \in 0..MaxWs, n \in TextLens}
PageTexts(o) == {Str(o, w, n) : w \in 0..MaxWs, n \in TextLens}

----------------------------------------------------------------------------
(* extract_text_from_pdf, resume_parser.py:99-177.                         *)

PDFMINER_NOTE == "pdfminer_failed_used_fallback"

ExtractionResult(text, source, note) == [text |-> text, source |-> source, note |-> note]
NoResult == ExtractionResult(EmptyStr, "pending", None)

\* Where control goes when extract_text_from_pdf returns.
AfterExtract == IF entry = "extract" THEN "done" ELSE "p_after"

\* Outcomes of a paginated decoder: the joined page texts, or an exception.
PrimaryOutcomes == {[kind |-> "text", text |-> t] : t \in PageTexts("pdfplumber")}
                   \cup {[kind |-> "pdfminer_error", text |-> EmptyStr],
                         [kind |-> "other_error", text |-> EmptyStr]}
SecondaryOutcomes == {[kind |-> "text", text |-> t] : t \in PageTexts("PyPDF2")}
                     \cup {[kind |-> "error", text |-> EmptyStr]}

\* Lines 104-112: the empty-input return, the size cap, parsing_note = None.
ExtractStart ==
    /\ pc = "x_start"
    /\ IF BytesLen(pdf_bytes) = 0
       THEN /\ xres' = ExtractionResult(EmptyStr, "none", "empty_input")
            /\ pc' = AfterExtract
            /\ UNCHANGED xbytes
       ELSE /\ xbytes' = IF BytesLen(pdf_bytes) > MAX_PDF_BYTES
                         THEN Slice(pdf_bytes, MAX_PDF_BYTES) ELSE pdf_bytes
            /\ pc' = "x_s1"
            /\ UNCHANGED xres
    /\ parsing_note' = None
    /\ UNCHANGED <<entry, lib, pdf_bytes, text_arg, tried, parsed, http,
                   user_profile, db, dirty, candidates, todo, matches_list,
                   engine_ok, top_k, gvars, mvars, cvars, wvars, avars>>

\* The guard of strategy 2, line 143.
SecondaryGuard(library, note) == library = "PyPDF2" \/ note = PDFMINER_NOTE

\* Lines 114-140: pdfplumber, when it is the library in use.
Strategy1 ==
    /\ pc = "x_s1"
    /\ IF lib = "pdfplumber"
       THEN \E out \in PrimaryOutcomes :
              /\ tried' = Append(tried, "pdfplumber")
              /\ IF out.kind = "text" /\ StrLen(Strip(out.text)) > 0
                 THEN /\ xres' = ExtractionResult(Strip(out.text), "pdfplumber", None)
                      /\ pc' = AfterExtract
                      /\ UNCHANGED parsing_note
                 ELSE /\ parsing_note' = IF out.kind = "pdfminer_error"
                                         THEN PDFMINER_NOTE ELSE parsing_note
                      /\ pc' = "x_s2"
                      /\ UNCHANGED xres
       ELSE /\ pc' = "x_s2"
            /\ UNCHANGED <<tried, xres, parsing_note>>
    /\ UNCHANGED <<entry, lib, pdf_bytes, text_arg, xbytes, parsed, http,
                   user_profile, db, dirty, candidates, todo, matches_list,
                   engine_ok, top_k, gvars, mvars, cvars, wvars, avars>>

\* Lines 142-164: PyPDF2.
Strategy2 ==
    /\ pc = "x_s2"
    /\ IF SecondaryGuard(lib, parsing_note)
       THEN \E out \in SecondaryOutcomes :
              /\ tried' = Append(tried, "PyPDF2")
              /\ IF out.kind = "text" /\ StrLen(Strip(out.text)) > 0
                 THEN /\ xres' = IF parsing_note = PDFMINER_NOTE
                                 THEN ExtractionResult(Strip(out.text), "pypdf_fallback", parsing_note)
                                 ELSE ExtractionResult(Strip(out.text), "PyPDF2", None)
                      /\ pc' = AfterExtract
                 ELSE /\ pc' = "x_s3"
                      /\ UNCHANGED xres
       ELSE /\ pc' = "x_s3"
            /\ UNCHANGED <<tried, xres>>
    /\ UNCHANGED <<entry, lib, pdf_bytes, text_arg, xbytes, parsing_note, parsed,
                   http, user_profile, db, dirty, candidates, todo, matches_list,
                   engine_ok, top_k, gvars, mvars, cvars, wvars, avars>>

\* Faulty variant of FallbackAccepts: the decoded text is returned without
\* any test.
FallbackAcceptsAlways(decoded) == TRUE

\* The acceptance test of the plain-text fallback, line 169.
FallbackAccepts(decoded) == StrLen(decoded) > 0 /\ StrLen(decoded) > MIN_FALLBACK_CHARS

\* Faulty variant of Strategy3Result: the final return reuses the note
\* recorded by strategy 1.
Strategy3ResultKeepsNote(bytes, note) ==
    LET decoded == Strip(DecodeIgnore(bytes))
    IN  IF StrLen(decoded) > MIN_FALLBACK_CHARS
        THEN ExtractionResult(decoded, "text_fallback",
                 IF note # None THEN note ELSE "text_fallback")
        ELSE ExtractionResult(EmptyStr, "none",
                 IF note # None THEN note ELSE "no_text_extracted")

\* Faulty variant of Strategy3Result: the fallback text is reported under the
\* library in use.
Strategy3ResultLibraryTag(bytes, note) ==
    LET decoded == Strip(DecodeIgnore(bytes))
    IN  IF StrLen(decoded) > MIN_FALLBACK_CHARS
        THEN ExtractionResult(decoded, IF lib # "none" THEN lib ELSE "text_fallback",
                 IF note # None THEN note ELSE "text_fallback")
        ELSE ExtractionResult(EmptyStr, "none", "no_text_extracted")

\* Lines 168-177: what strategy 3 returns for the capped bytes.
Strategy3Result(bytes, note) ==
    LET decoded == Strip(DecodeIgnore(bytes))
    IN  IF FallbackAccepts(decoded)
        THEN ExtractionResult(decoded, "text_fallback",
                 IF note # None THEN note ELSE "text_fallback")
        ELSE ExtractionResult(EmptyStr, "none", "no_text_extracted")

\* Lines 166-177: the UTF-8 decode, then the final "none" return.
Strategy3 ==
    /\ pc = "x_s3"
    /\ tried' = Append(tried, "utf8")
    /\ xres' = Strategy3Result(xbytes, parsing_note)
    /\ pc' = AfterExtract
    /\ UNCHANGED <<entry, lib, pdf_bytes, text_arg, xbytes, parsing_note, parsed,
                   http, user_profile, db, dirty, candidates, todo, matches_list,
                   engine_ok, top_k, gvars, mvars, cvars, wvars, avars>>

----------------------------------------------------------------------------
(* The scoring engine, matching_engine.py.  A skill, a role or a timezone  *)
(* is a sequence of one-character strings; a dict is a record and          *)
(* d.get(k, default) is Get(d, k, default).                                *)

MaxSkills == 7  \* shared skills of the user, and required skills, at most
MaxExtra == 5   \* skills of the user that the project does not require
MaxComp == 1    \* embedding components range over -MaxComp..MaxComp

RECURSIVE Gcd(_, _)
Gcd(a, b) == IF b = 0 THEN a ELSE Gcd(b, a % b)
RECURSIVE LcmUpTo(_)
LcmUpTo(n) == IF n <= 1 THEN 1 ELSE LET l == LcmUpTo(n - 1) IN (l * n) \div Gcd(l, n)

\* Fixed point: the number x is the integer x * Scale; a weighted sum of
\* percent weights is in units of 1 / (100 * Scale).
CosUnit == 10 * 100
Scale == CosUnit * LcmUpTo(MaxSkills)
Pct(p) == (p * Scale) \div 100

Get(d, k, default) == IF k \in DOMAIN d THEN d[k] ELSE default
\* Truthiness of a list or a string; None is modelled by the empty one where
\* the code only tests truthiness.
Truthy(x) == x # <<>>
\* An embedding value: None, or a list of numbers.
NoEmb == [kind |-> "None", v |-> <<>>]
List(v) == [kind |-> "list", v |-> v]
EmbTruthy(e) == e.kind = "list" /\ e.v # <<>>
SeqToSet(q) == {q[i] : i \in DOMAIN q}

Upper == <<"A", "B", "C", "G", "S">>
Lowered == <<"a", "b", "c", "g", "s">>
LowerChar(c) == IF \E i \in DOMAIN Upper : Upper[i] = c
                THEN Lowered[CHOOSE i \in DOMAIN Upper : Upper[i] = c] ELSE c
Lower(s) == [i \in DOMAIN s |-> LowerChar(s[i])]
\* str.strip() removes whitespace of every kind, str.replace(' ', '') only
\* the space.
Whitespace == {" ", "\t", "\n", "\r", "\f"}
RECURSIVE StripLeft(_)
StripLeft(s) == IF s # <<>> /\ Head(s) \in Whitespace THEN StripLeft(Tail(s)) ELSE s
RECURSIVE StripRight(_)
StripRight(s) ==
    IF s # <<>> /\ s[Len(s)] \in Whitespace THEN StripRight(SubSeq(s, 1, Len(s) - 1)) ELSE s
StripChars(s) == StripRight(StripLeft(s))
Replace(s, c) == SelectSeq(s, LAMBDA x : x # c)

\* matching_engine.py:10-12
normalize_skill(skill) ==
    Replace(Replace(Replace(Replace(StripChars(Lower(skill)), "."), " "), "-"), "_")

\* dict comprehension {normalize_skill(s): s for s in skills}: the last skill
\* of a key wins.
NormalizedDict(skills) ==
    LET keyed == {<<i, normalize_skill(skills[i])>> : i \in DOMAIN skills}
    IN  [k \in {e[2] : e \in keyed} |->
            skills[(CHOOSE e \in keyed :
                       e[2] = k /\ \A f \in keyed : f[2] = k => f[1] <= e[1])[1]]]

\* Faulty variant of calculate_skill_overlap: the ratio is taken over the
\* length of the required list instead of the number of normalized keys.
calculate_skill_overlap_per_entry(user_skills, required_skills) ==
    IF ~Truthy(required_skills)
    THEN [score |-> Pct(50), shared |-> {}, complementary |-> {}]
    ELSE LET user_normalized == NormalizedDict(user_skills)
             req_normalized == NormalizedDict(required_skills)
             shared_keys == DOMAIN user_normalized \cap DOMAIN req_normalized
             comp_keys == DOMAIN user_normalized \ DOMAIN req_normalized
             overlap_ratio == (Cardinality(shared_keys) * Scale) \div Len(required_skills)
             complementary_bonus == Min(Cardinality(comp_keys) * Pct(5), Pct(20))
         IN  [score |-> Min(overlap_ratio + complementary_bonus, Scale),
              shared |-> {req_normalized[k] : k \in shared_keys},
              complementary |-> {user_normalized[k] : k \in comp_keys}]

\* matching_engine.py:73-93
calculate_skill_overlap(user_skills, required_skills) ==
    IF ~Truthy(required_skills)
    THEN [score |-> Pct(50), shared |-> {}, complementary |-> {}]
    ELSE LET user_normalized == NormalizedDict(user_skills)
             req_normalized == NormalizedDict(required_skills)
             shared_keys == DOMAIN user_normalized \cap DOMAIN req_normalized
             comp_keys == DOMAIN user_normalized \ DOMAIN req_normalized
             overlap_ratio == (Cardinality(shared_keys) * Scale) \div Cardinality(DOMAIN req_normalized)
             complementary_bonus == Min(Cardinality(comp_keys) * Pct(5), Pct(20))
         IN  [score |-> Min(overlap_ratio + complementary_bonus, Scale),
              shared |-> {req_normalized[k] : k \in shared_keys},
              complementary |-> {user_normalized[k] : k \in comp_keys}]

\* matching_engine.py:59-67
calculate_role_match(user_roles, required_roles) ==
    IF ~Truthy(required_roles)
    THEN [ratio |-> Scale, matched |-> {}]
    ELSE LET user_set == {Lower(r) : r \in SeqToSet(IF Truthy(user_roles) THEN user_roles ELSE <<>>)}
             req_set == {Lower(r) : r \in SeqToSet(required_roles)}
             matched == user_set \cap req_set
         IN  [ratio |-> IF req_set # {} THEN (Cardinality(matched) * Scale) \div Cardinality(req_set) ELSE 0,
              matched |-> matched]

\* Faulty variant of calculate_experience_fit: the test against the maximum
\* comes first.
calculate_experience_fit_over_first(user_exp, required_exp_min, required_exp_max) ==
    IF user_exp > required_exp_max
    THEN Max(Pct(70), Scale - (user_exp - required_exp_max) * Pct(5))
    ELSE IF user_exp < required_exp_min
         THEN Max(Pct(50), Scale - (required_exp_min - user_exp) * Pct(15))
         ELSE Scale

\* matching_engine.py:95-103
calculate_experience_fit(user_exp, required_exp_min, required_exp_max) ==
    IF user_exp < required_exp_min
    THEN Max(Pct(50), Scale - (required_exp_min - user_exp) * Pct(15))
    ELSE IF user_exp > required_exp_max
         THEN Max(Pct(70), Scale - (user_exp - required_exp_max) * Pct(5))
         ELSE Scale

\* matching_engine.py:105-109
calculate_availability_score(user_tz, project_tz) ==
    IF ~Truthy(user_tz) \/ ~Truthy(project_tz) THEN Scale
    ELSE IF user_tz = project_tz THEN Scale ELSE Pct(80)

RECURSIVE Dot(_, _)
Dot(v, w) == IF v = <<>> THEN 0 ELSE Head(v) * Head(w) + Dot(Tail(v), Tail(w))
RECURSIVE SqrtBetween(_, _, _)
SqrtBetween(x, lo, hi) ==
    IF lo >= hi THEN lo
    ELSE LET mid == (lo + hi + 1) \div 2
         IN  IF mid * mid <= x THEN SqrtBetween(x, mid, hi) ELSE SqrtBetween(x, lo, mid - 1)
Abs(x) == IF x < 0 THEN -x ELSE x

\* embedding_engine.py:227-243, for vectors of equal length; the quotient is
\* rounded toward zero to a multiple of 1 / CosUnit.
cosine_similarity(vec1, vec2) ==
    LET dot_product == Dot(vec1, vec2)
        norm1sq == Dot(vec1, vec1)
        norm2sq == Dot(vec2, vec2)
    IN  IF norm1sq = 0 \/ norm2sq = 0 THEN 0
        ELSE LET q == SqrtBetween((dot_product * dot_product * CosUnit * CosUnit)
                                    \div (norm1sq * norm2sq), 0, CosUnit)
             IN  (IF dot_product < 0 THEN -q ELSE q) * (Scale \div CosUnit)

\* embedding_engine.py:227-243 as a call: np.dot (line 235) raises ValueError
\* for vectors of unequal length, before the norms are looked at.
cosine_similarity_call(vec1, vec2) ==
    IF Len(vec1) # Len(vec2) THEN Raises("ValueError")
    ELSE Returns(cosine_similarity(vec1, vec2))

\* matching_engine.py:50-57; np.dot raises on vectors of unequal length and
\* the except clause returns 0.0.
calculate_embedding_score(emb1, emb2) ==
    IF emb1.kind = "None" \/ emb2.kind = "None" THEN 0
    ELSE IF Len(emb1.v) # Len(emb2.v) THEN 0
    ELSE cosine_similarity(emb1.v, emb2.v)

\* Faulty variant of EmbScore: calculate_embedding_score is called without
\* the test of line 123, and returns 0.0 for None.
EmbScoreUnguarded(user_data, project_data) ==
    calculate_embedding_score(Get(user_data, "embedding", NoEmb),
                              Get(project_data, "embedding", NoEmb))

\* matching_engine.py:120-123
EmbScore(user_data, project_data) ==
    IF EmbTruthy(Get(user_data, "embedding", NoEmb)) /\ EmbTruthy(Get(project_data, "embedding", NoEmb))
    THEN calculate_embedding_score(Get(user_data, "embedding", NoEmb),
                                   Get(project_data, "embedding", NoEmb))
    ELSE Pct(50)

\* matching_engine.py:114-141: the five sub-scores.
SubScores(user_data, project_data) ==
    LET so == calculate_skill_overlap(Get(user_data, "skills", <<>>),
                                      Get(project_data, "required_skills", <<>>))
        rm == calculate_role_match(Get(user_data, "roles", <<>>),
                                   Get(project_data, "required_roles", <<>>))
    IN  [skill |-> so.score,
         shared |-> so.shared,
         complementary |-> so.complementary,
         emb |-> EmbScore(user_data, project_data),
         role |-> rm.ratio,
         matched_roles |-> rm.matched,
         exp |-> calculate_experience_fit(Get(user_data, "experience_years", 0),
                                          Get(project_data, "min_experience", 0),
                                          Get(project_data, "max_experience", 10)),
         avail |-> calculate_availability_score(Get(user_data, "timezone", <<>>),
                                                Get(project_data, "timezone", <<>>))]

\* matching_engine.py:39-47, in percent.
WEIGHTS == [skill_overlap |-> 45, embedding_similarity |-> 25, role_match |-> 15,
            experience_fit |-> 6, hackathon_bonus |-> 5, availability |-> 4]

\* Faulty variant of FinalScore: the boosted sum is returned without the clamp.
FinalScoreNoClamp(ss) ==
    ss.skill * 45 + ss.emb * 25 + ss.role * 15 + ss.exp * 6 + ss.avail * 4
    + Min(Cardinality(ss.shared) * 2 * Scale, 12 * Scale)

\* matching_engine.py:143-157, in units of 1 / (100 * Scale).
FinalScore(ss) ==
    LET weighted == ss.skill * WEIGHTS.skill_overlap
                    + ss.emb * WEIGHTS.embedding_similarity
                    + ss.role * WEIGHTS.role_match
                    + ss.exp * WEIGHTS.experience_fit
                    + ss.avail * WEIGHTS.availability
        boosted == weighted + Min(Cardinality(ss.shared) * 2 * Scale, 12 * Scale)
    IN  Max(0, Min(100 * Scale, boosted))

Reason(kind, n, m) == [kind |-> kind, n |-> n, m |-> m]

\* Faulty variant of Reasons: the strong-match test is taken against
\* required_count * 0.8 alone, without the floor of 1.
ReasonsNoFloor(ss, project_data) ==
    LET shared_count == Cardinality(ss.shared)
        required_count == Len(Get(project_data, "required_skills", <<>>))
        comp_count == Cardinality(ss.complementary)
    IN  (IF shared_count > 0
         THEN <<Reason("required_skills_matched", shared_count, required_count)>> ELSE <<>>)
        \o (IF shared_count * 10 >= required_count * 8
            THEN <<Reason("strong_skill_match", 0, 0)>> ELSE <<>>)
        \o (IF ss.matched_roles # {}
            THEN <<Reason("role_fit", Cardinality(ss.matched_roles), 0)>> ELSE <<>>)
        \o (IF comp_count >= 3
            THEN <<Reason("bonus_skills", comp_count, 0)>> ELSE <<>>)
        \o (IF ss.emb > Pct(70)
            THEN <<Reason("profile_similarity", ss.emb, 0)>> ELSE <<>>)

\* matching_engine.py:159-172
Reasons(ss, project_data) ==
    LET shared_count == Cardinality(ss.shared)
        required_count == Len(Get(project_data, "required_skills", <<>>))
        comp_count == Cardinality(ss.complementary)
    IN  (IF shared_count > 0
         THEN <<Reason("required_skills_matched", shared_count, required_count)>> ELSE <<>>)
        \o (IF shared_count * 10 >= Max(10, required_count * 8)
            THEN <<Reason("strong_skill_match", 0, 0)>> ELSE <<>>)
        \o (IF ss.matched_roles # {}
            THEN <<Reason("role_fit", Cardinality(ss.matched_roles), 0)>> ELSE <<>>)
        \o (IF comp_count >= 3
            THEN <<Reason("bonus_skills", comp_count, 0)>> ELSE <<>>)
        \o (IF ss.emb > Pct(70)
            THEN <<Reason("profile_similarity", ss.emb, 0)>> ELSE <<>>)

\* str(project_data.get("id", "unknown")), matching_engine.py:175
TargetId(project_data) == [str |-> Get(project_data, "id", "unknown")]

\* A numpy array (what embed_batch returns, embedding_engine.py:212-215, and
\* what the type hints of calculate_embedding_score name).
NdArray(v) == [kind |-> "ndarray", v |-> v]

\* bool() of a numpy array of more than one element raises ValueError.
TruthRaises(e) == e.kind = "ndarray" /\ Len(e.v) > 1

\* matching_engine.py:123: the test `user_data.get("embedding") and
\* project_data.get("embedding")` raises when it takes the truth value of such
\* an array; match_user_to_project has no handler around it.
MatchRaises(user_data, project_data) ==
    \/ TruthRaises(Get(user_data, "embedding", NoEmb))
    \/ /\ EmbTruthy(Get(user_data, "embedding", NoEmb))
       /\ TruthRaises(Get(project_data, "embedding", NoEmb))

\* matching_engine.py:112-180
match_user_to_project(user_data, project_data) ==
    LET ss == SubScores(user_data, project_data)
    IN  [target_id |-> TargetId(project_data),
         score |-> FinalScore(ss),
         reasons |-> Reasons(ss, project_data),
         shared_skills |-> ss.shared,
         complementary_skills |-> ss.complementary]

----------------------------------------------------------------------------
(* The field extractors of resume_parser.py read the characters of the     *)
(* text: a text is a string, Char(s, i) its i-th character.                *)

MaxTokens == 3      \* tokens or phrases in an input text, at most

Char(s, i) == SubSeq(s, i, i)
AsciiUpper == "ABCDEFGHIJKLMNOPQRSTUVWXYZ"
AsciiLower == "abcdefghijklmnopqrstuvwxyz"
AsciiDigits == "0123456789"
InString(c, alphabet) == \E i \in 1..Len(alphabet) : Char(alphabet, i) = c

\* str.lower()
LowerCh(c) ==
    IF InString(c, AsciiUpper)
    THEN Char(AsciiLower, CHOOSE i \in 1..Len(AsciiUpper) : Char(AsciiUpper, i) = c)
    ELSE c
RECURSIVE str_lower(_)
str_lower(s) ==
    IF s = "" THEN ""
    ELSE IF Len(s) = 1 THEN LowerCh(s)
    ELSE LET half == Len(s) \div 2
         IN  str_lower(SubSeq(s, 1, half)) \o str_lower(SubSeq(s, half + 1, Len(s)))

\* The class \w of re, and the assertion \b before position i: exactly one
\* of the characters at i - 1 and at i is a word character.
IsWordChar(c) ==
    InString(c, AsciiLower) \/ InString(c, AsciiUpper) \/ InString(c, AsciiDigits) \/ c = "_"
WordAt(s, i) == i >= 1 /\ i <= Len(s) /\ IsWordChar(Char(s, i))
WordBoundary(s, i) == WordAt(s, i - 1) # WordAt(s, i)

\* s has the literal word at position i.
LiteralAt(s, i, word) == i + Len(word) - 1 <= Len(s) /\ SubSeq(s, i, i + Len(word) - 1) = word

\* resume_parser.py:33-70: category, canonical skill, synonyms.
SKILL_KEYWORDS ==
    {<<"frontend", "react", {"react", "reactjs", "react.js"}>>,
     <<"frontend", "javascript", {"javascript", "js"}>>,
     <<"frontend", "html", {"html", "html5"}>>,
     <<"frontend", "css", {"css", "scss", "sass"}>>,
     <<"frontend", "tailwind", {"tailwind", "tailwindcss"}>>,
     <<"backend", "python", {"python", "python3"}>>,
     <<"backend", "fastapi", {"fastapi", "fast api"}>>,
     <<"backend", "flask", {"flask"}>>,
     <<"backend", "nodejs", {"node", "nodejs", "node.js"}>>,
     <<"backend", "express", {"express", "expressjs"}>>,
     <<"backend", "java", {"java"}>>,
     <<"backend", "csharp", {"c#", "csharp", ".net"}>>,
     <<"ml_ai", "pytorch", {"pytorch", "torch"}>>,
     <<"ml_ai", "tensorflow", {"tensorflow", "tf", "keras"}>>,
     <<"ml_ai", "sklearn", {"scikit-learn", "sklearn"}>>,
     <<"ml_ai", "nlp", {"nlp", "natural language processing"}>>,
     <<"ml_ai", "cv", {"computer vision", "opencv", "cv"}>>,
     <<"ml_ai", "transformers", {"transformers", "bert", "gpt", "llm"}>>,
     <<"data", "sql", {"sql", "mysql", "postgres", "postgresql"}>>,
     <<"data", "pandas", {"pandas"}>>,
     <<"data", "numpy", {"numpy"}>>,
     <<"data", "mongodb", {"mongo", "mongodb"}>>,
     <<"data", "elasticsearch", {"elasticsearch", "elastic"}>>,
     <<"devops", "docker", {"docker", "dockerfile"}>>,
     <<"devops", "kubernetes", {"kubernetes", "k8s"}>>,
     <<"devops", "aws", {"aws", "amazon web services", "ec2", "s3"}>>}

\* resume_parser.py:72-77: synonym -> (canonical, category); no synonym occurs
\* twice in the table.
skill_syn ==
    UNION {{[syn |-> str_lower(y), canonical |-> e[2], cat |-> e[1]] : y \in e[3]} :
              e \in SKILL_KEYWORDS}

\* re.search(r"\b" + re.escape(syn) + r"\b", text), resume_parser.py:211
SearchWord(syn, text) ==
    \E i \in 1..Len(text) :
        LiteralAt(text, i, syn) /\ WordBoundary(text, i) /\ WordBoundary(text, i + Len(syn))

\* resume_parser.py:207-213.  sorted(v) of a set is a list without
\* repetition in a fixed order: it is modelled by the set.
extract_skills(text) ==
    LET text_lower == str_lower(text)
        found == {e \in skill_syn : SearchWord(e.syn, text_lower)}
    IN  [cat \in {e.cat : e \in found} |-> {e.canonical : e \in {f \in found : f.cat = cat}}]

\* resume_parser.py:327
all_skills(skills_by_category) ==
    UNION {skills_by_category[cat] : cat \in DOMAIN skills_by_category}

\* The regex of resume_parser.py:226,
\*   (\d{1,2})\+?\s*(?:years|yrs)\s+(?:of\s+)?experience
\* matched by hand.  NoMatch is the position 0.
IsDigit(c) == InString(c, AsciiDigits)
IsSpace(c) == c \in {" ", "\t", "\n", "\r"}
DigitValue(c) == (CHOOSE i \in 1..Len(AsciiDigits) : Char(AsciiDigits, i) = c) - 1
RECURSIVE SkipSpaces(_, _)
SkipSpaces(s, i) == IF i <= Len(s) /\ IsSpace(Char(s, i)) THEN SkipSpaces(s, i + 1) ELSE i

\* (?:of\s+)?experience at position i: the position after it, or 0.
OfExperienceEnd(s, i) ==
    LET with_of == IF LiteralAt(s, i, "of") /\ SkipSpaces(s, i + 2) > i + 2
                      /\ LiteralAt(s, SkipSpaces(s, i + 2), "experience")
                   THEN SkipSpaces(s, i + 2) + 10 ELSE 0
    IN  IF with_of # 0 THEN with_of
        ELSE IF LiteralAt(s, i, "experience") THEN i + 10 ELSE 0

\* \+?\s*(?:years|yrs)\s+(?:of\s+)?experience at position i.
YearsTailEnd(s, i) ==
    LET after_plus == IF i <= Len(s) /\ Char(s, i) = "+" THEN i + 1 ELSE i
        unit == SkipSpaces(s, after_plus)
        after_unit == IF LiteralAt(s, unit, "years") THEN unit + 5
                      ELSE IF LiteralAt(s, unit, "yrs") THEN unit + 3 ELSE 0
    IN  IF after_unit = 0 \/ SkipSpaces(s, after_unit) = after_unit THEN 0
        ELSE OfExperienceEnd(s, SkipSpaces(s, after_unit))

\* The match that starts at position i: two digits if that leads to a match,
\* else one digit; [n, end] with end = 0 when there is none.
YearsMatchAt(s, i) ==
    IF i + 1 <= Len(s) /\ IsDigit(Char(s, i)) /\ IsDigit(Char(s, i + 1))
       /\ YearsTailEnd(s, i + 2) # 0
    THEN [n |-> 10 * DigitValue(Char(s, i)) + DigitValue(Char(s, i + 1)),
          end |-> YearsTailEnd(s, i + 2)]
    ELSE IF i <= Len(s) /\ IsDigit(Char(s, i)) /\ YearsTailEnd(s, i + 1) # 0
    THEN [n |-> DigitValue(Char(s, i)), end |-> YearsTailEnd(s, i + 1)]
    ELSE [n |-> 0, end |-> 0]

\* re.findall: the groups of the leftmost matches that do not overlap.
RECURSIVE FindAllYears(_, _)
FindAllYears(s, i) ==
    IF i > Len(s) THEN <<>>
    ELSE LET m == YearsMatchAt(s, i)
         IN  IF m.end # 0 THEN <<m.n>> \o FindAllYears(s, m.end)
             ELSE FindAllYears(s, i + 1)

RECURSIVE MaxOf(_)
MaxOf(nums) == IF Len(nums) = 1 THEN nums[1] ELSE Max(nums[1], MaxOf(Tail(nums)))

\* resume_parser.py:225-233
extract_experience_years(text) ==
    LET matches == FindAllYears(str_lower(text), 1)
    IN  IF matches # <<>> THEN MaxOf(matches) ELSE 0

----------------------------------------------------------------------------
(* extract_hackathon_wins, resume_parser.py:264-284.                       *)

WINDOW == 120
CONTEXT_CHARS == 200
HACKATHON_KEYWORDS == <<"hackathon", "devpost", "mlh", "challenge", "competition">>
FIRST_WORDS == {"winner", "1st", "first", "champion", "gold"}
SECOND_WORDS == {"runner up", "runner-up", "2nd", "second", "silver"}
THIRD_WORDS == {"3rd", "third", "bronze"}

\* str.find: the position of the first occurrence counted from 0, -1 when
\* there is none.
str_find(s, sub) ==
    LET at == {i \in 1..Len(s) : LiteralAt(s, i, sub)}
    IN  IF at = {} THEN -1 ELSE (CHOOSE i \in at : \A j \in at : i <= j) - 1

\* re.search(r"\b(w1|w2|...)\b", snippet)
SearchAnyWord(words, snippet) == \E w \in words : SearchWord(w, snippet)

\* Lines 270-279: the window around the first occurrence, cut from the text
\* in its original case, and the placement read from it.
Snippet(text, idx) == SubSeq(text, Max(0, idx - WINDOW) + 1, Min(Len(text), idx + WINDOW))
Placement(snippet) ==
    IF SearchAnyWord(FIRST_WORDS, snippet) THEN "first"
    ELSE IF SearchAnyWord(SECOND_WORDS, snippet) THEN "second"
    ELSE IF SearchAnyWord(THIRD_WORDS, snippet) THEN "third"
    ELSE "participant"

\* The loop of lines 268-281 from the k-th keyword on.
RECURSIVE Achievements(_, _)
Achievements(text, k) ==
    IF k > Len(HACKATHON_KEYWORDS) THEN <<>>
    ELSE LET idx == str_find(str_lower(text), HACKATHON_KEYWORDS[k])
         IN  (IF idx >= 0
              THEN LET snippet == Snippet(text, idx)
                   IN  <<[context |-> SubSeq(snippet, 1, Min(CONTEXT_CHARS, Len(snippet))),
                          placement |-> Placement(snippet)]>>
              ELSE <<>>)
             \o Achievements(text, k + 1)

extract_hackathon_wins(text) ==
    LET found == Achievements(text, 1)
        wins == [tier \in {"first", "second", "third", "finalist", "participant"} |->
                    Cardinality({i \in DOMAIN found : found[i].placement = tier})]
        score == wins["first"] * 10 + wins["second"] * 7 + wins["third"] * 5
                 + wins["finalist"] * 3 + wins["participant"]
    IN  [total_hackathons |-> Len(found), achievements |-> found, wins_breakdown |-> wins,
         hackathon_score |-> score, has_hackathon_experience |-> Len(found) > 0]

----------------------------------------------------------------------------

(* parse_resume, resume_parser.py:289-354.  The field extractors read the  *)
(* characters of the text, which the model does not keep: what they find   *)
(* is drawn from ExtractedFields.                                          *)

SkPython == <<"p", "y">>
SkReact == <<"r", "e">>
RoleBackend == <<"b", "e">>
RoleDeveloper == <<"d", "e", "v">>

ExtractedFields ==
    {[all_skills |-> <<>>, roles |-> <<>>, experience_years |-> 0],
     [all_skills |-> <<SkPython, SkReact>>, roles |-> <<RoleBackend>>, experience_years |-> 5]}

ProfileFields == {"name", "contact", "skills_by_category", "all_skills", "roles",
                  "experience_years", "education", "work_experience", "hackathons"}

NotParsed == [pending |-> TRUE]

\* Faulty variant of TooShort: only the empty text is refused.
TooShortOnlyEmpty(raw_text) == StrLen(raw_text) = 0

\* The test of line 307 on the stripped text.
TooShort(raw_text) == StrLen(raw_text) = 0 \/ StrLen(raw_text) < MIN_PARSE_CHARS

\* Lines 306-354: the dict parse_resume returns for the stripped text.
ParseResult(raw_text, parsing_library, note, f) ==
    IF TooShort(raw_text)
    THEN [error |-> "No meaningful text to parse",
          raw_text |-> Prefix(raw_text, RAW_TEXT_ERROR_PREVIEW),
          parsing_library |-> parsing_library,
          parsing_note |-> note]
    ELSE LET result ==
                 [name |-> "extracted", contact |-> "extracted",
                  skills_by_category |-> "extracted",
                  all_skills |-> f.all_skills,
                  roles |-> f.roles,
                  experience_years |-> f.experience_years,
                  education |-> "extracted", work_experience |-> "extracted",
                  hackathons |-> "extracted",
                  raw_text_preview |-> Prefix(raw_text, RAW_TEXT_ERROR_PREVIEW),
                  raw_text |-> raw_text,
                  total_text_length |-> StrLen(raw_text),
                  parsing_library |-> parsing_library]
         IN  IF note # None THEN result @@ [parsing_note |-> note] ELSE result

\* Lines 296-302: the locals, and the call of extract_text_from_pdf.
ParseStart ==
    /\ pc = "p_start"
    /\ pc' = IF BytesLen(pdf_bytes) > 0 THEN "x_start" ELSE "p_after"
    /\ UNCHANGED <<entry, lib, pdf_bytes, text_arg, xbytes, parsing_note, tried, xres,
                   parsed, http, user_profile, db, dirty, candidates, todo,
                   matches_list, engine_ok, top_k, gvars, mvars, cvars, wvars, avars>>

\* Lines 303-354.
ParseAfter ==
    /\ pc = "p_after"
    /\ LET r0 == IF xres.source = "pending"
                 THEN ExtractionResult(EmptyStr, "none", None) ELSE xres
           use_text == StrLen(r0.text) = 0 /\ StrLen(text_arg) > 0
           raw_text == Strip(IF use_text THEN text_arg ELSE r0.text)
           parsing_library == IF use_text THEN "text_input" ELSE r0.source
       IN  \E f \in ExtractedFields :
             parsed' = ParseResult(raw_text, parsing_library, r0.note, f)
    /\ pc' = IF entry = "parse" THEN "done" ELSE "u_check"
    /\ UNCHANGED <<entry, lib, pdf_bytes, text_arg, xbytes, parsing_note, tried, xres,
                   http, user_profile, db, dirty, candidates, todo, matches_list,
                   engine_ok, top_k, gvars, mvars, cvars, wvars, avars>>

----------------------------------------------------------------------------
(* upload_and_match_resume, match.py:48-298.                               *)

MaxProjects == 2    \* Project rows in the database, at most

ProjectIds == 1..MaxProjects
TopKs == {-1, 0, 1, 10}

\* [0.1] * 384 (matching_engine.py:213, 224): every component the same
\* positive number; the embedder never computes this vector.
DefaultEmbedding == List(<<1, 1>>)
ComputedVecs == {<<1, 0>>, <<-1, 0>>}
StoredEmbeddings == {NoEmb, List(<<1, 0>>)}

ProjectRow(id, emb) ==
    [id |-> id,
     required_skills |-> IF id = 1 THEN <<SkPython>> ELSE <<SkReact, SkPython>>,
     required_roles |-> IF id = 1 THEN <<RoleBackend>> ELSE <<>>,
     embedding |-> emb,
     min_experience |-> 0, max_experience |-> 10, timezone |-> <<>>]

Databases ==
    UNION {{[i \in ids |-> ProjectRow(i, e[i])] : e \in [ids -> StoredEmbeddings]} :
              ids \in SUBSET ProjectIds}

\* What embed_profile or embed_project does (embedding_engine.py:194-204): it
\* returns the vector as a list or as an array, or it raises.
EmbedOutcomes ==
    {[kind |-> k, v |-> v] : k \in {"list", "ndarray"}, v \in ComputedVecs}
    \cup {[kind |-> "error", v |-> <<>>]}

\* Faulty variant of ensure_embedding_call: no handler around the embedder.
ensure_embedding_unguarded(engine_loaded, out) ==
    IF ~engine_loaded THEN Returns(DefaultEmbedding)
    ELSE IF out.kind = "error" THEN Raises("Exception")
    ELSE Returns(List(out.v))

\* matching_engine.py:210-224: one call of ensure_embedding, given whether
\* the wrapper has an engine and what the embedder does.
ensure_embedding_call(engine_loaded, out) ==
    IF ~engine_loaded THEN Returns(DefaultEmbedding)
    ELSE IF out.kind = "error" THEN Returns(DefaultEmbedding)
    ELSE Returns(List(out.v))

\* matching_engine.py:210-224: what ensure_embedding can return.
ensure_embedding(engine) ==
    {ensure_embedding_call(engine, out).value : out \in EmbedOutcomes}

\* match.py:62-65: the status the size checks answer with, 0 to go on.
UploadStatus(content) ==
    IF BytesLen(content) = 0 THEN 400
    ELSE IF MAX_PDF_BYTES # 0 /\ BytesLen(content) > MAX_PDF_BYTES THEN 413
    ELSE 0

\* Faulty variant of ParseFailed: the wrong key is looked up.
ParseFailedWrongKey(result) == "errors" \in DOMAIN result

\* match.py:69
ParseFailed(result) == "error" \in DOMAIN result

\* match.py:85-95
UserProfile(result) ==
    [id |-> "user_resume",
     roles |-> IF Truthy(Get(result, "roles", <<>>))
               THEN result.roles ELSE <<RoleDeveloper>>,
     skills |-> Get(result, "all_skills", <<>>),
     experience_years |-> Get(result, "experience_years", 0),
     timezone |-> <<>>,
     embedding |-> NoEmb]

\* match.py:189-201: the candidate has no required_skills and no
\* required_roles key.
Candidate(p, project_embedding) ==
    [id |-> p.id,
     roles |-> p.required_roles,
     skills |-> p.required_skills,
     experience_years |-> 0,
     embedding |-> project_embedding,
     min_experience |-> IF p.min_experience # 0 THEN p.min_experience ELSE 0,
     max_experience |-> IF p.max_experience # 0 THEN p.max_experience ELSE 10,
     timezone |-> p.timezone]

\* Sort key of match.py:230 and matching_engine.py:193.
KeyGreater(a, b) ==
    \/ a.score > b.score
    \/ a.score = b.score /\ Cardinality(a.shared_skills) > Cardinality(b.shared_skills)

\* Faulty variant of InsertMatch: an element goes before the elements of
\* equal key, so that ties come out in reverse order.
RECURSIVE InsertMatchBeforeTies(_, _)
InsertMatchBeforeTies(sorted, m) ==
    IF sorted = <<>> THEN <<m>>
    ELSE IF ~KeyGreater(Head(sorted), m) THEN <<m>> \o sorted
    ELSE <<Head(sorted)>> \o InsertMatchBeforeTies(Tail(sorted), m)

\* list.sort(key, reverse=True): descending and stable.
RECURSIVE InsertMatch(_, _)
InsertMatch(sorted, m) ==
    IF sorted = <<>> THEN <<m>>
    ELSE IF KeyGreater(m, Head(sorted)) THEN <<m>> \o sorted
    ELSE <<Head(sorted)>> \o InsertMatch(Tail(sorted), m)
RECURSIVE SortMatches(_)
SortMatches(ms) ==
    IF ms = <<>> THEN <<>>
    ELSE InsertMatch(SortMatches(SubSeq(ms, 1, Len(ms) - 1)), ms[Len(ms)])

\* The slice q[:k] of Python.
SliceTo(q, k) ==
    IF k >= 0 THEN SubSeq(q, 1, Min(k, Len(q)))
    ELSE SubSeq(q, 1, Max(0, Len(q) + k))

RECURSIVE Ascending(_)
Ascending(ids) ==
    IF ids = {} THEN <<>>
    ELSE LET lo == CHOOSE i \in ids : \A j \in ids : i <= j
         IN  <<lo>> \o Ascending(ids \ {lo})

NoRows == [i \in {} |-> NoEmb]

\* match.py:57-65
UploadRead ==
    /\ pc = "u_read"
    /\ IF UploadStatus(pdf_bytes) # 0
       THEN http' = UploadStatus(pdf_bytes) /\ pc' = "done"
       ELSE pc' = "p_start" /\ UNCHANGED http
    /\ UNCHANGED <<entry, lib, pdf_bytes, text_arg, xbytes, parsing_note, tried, xres,
                   parsed, user_profile, db, dirty, candidates, todo, matches_list,
                   engine_ok, top_k, gvars, mvars, cvars, wvars, avars>>

\* match.py:69-95
UploadCheck ==
    /\ pc = "u_check"
    /\ IF ParseFailed(parsed)
       THEN http' = 422 /\ pc' = "done" /\ UNCHANGED user_profile
       ELSE user_profile' = UserProfile(parsed) /\ pc' = "u_embed" /\ UNCHANGED http
    /\ UNCHANGED <<entry, lib, pdf_bytes, text_arg, xbytes, parsing_note, tried, xres,
                   parsed, db, dirty, candidates, todo, matches_list, engine_ok, top_k, gvars, mvars, cvars, wvars, avars>>

\* match.py:97-104
UploadEmbed ==
    /\ pc = "u_embed"
    /\ \E emb \in ensure_embedding(engine_ok) :
         user_profile' = [user_profile EXCEPT !.embedding = emb]
    /\ pc' = "u_fetch"
    /\ UNCHANGED <<entry, lib, pdf_bytes, text_arg, xbytes, parsing_note, tried, xres,
                   parsed, http, db, dirty, candidates, todo, matches_list,
                   engine_ok, top_k, gvars, mvars, cvars, wvars, avars>>

\* match.py:106-117
UploadFetch ==
    /\ pc = "u_fetch"
    /\ IF DOMAIN db = {}
       THEN http' = 404 /\ pc' = "done" /\ UNCHANGED todo
       ELSE todo' = Ascending(DOMAIN db) /\ pc' = "u_prepare" /\ UNCHANGED http
    /\ UNCHANGED <<entry, lib, pdf_bytes, text_arg, xbytes, parsing_note, tried, xres,
                   parsed, user_profile, db, dirty, candidates, matches_list,
                   engine_ok, top_k, gvars, mvars, cvars, wvars, avars>>

\* match.py:119-204: one iteration of the loop over the projects.
UploadPrepare ==
    /\ pc = "u_prepare"
    /\ LET p == db[Head(todo)]
       IN  IF ~EmbTruthy(p.embedding)
           THEN \E emb \in ensure_embedding(engine_ok) :
                  /\ dirty' = (p.id :> emb) @@ dirty
                  /\ candidates' = Append(candidates, Candidate(p, emb))
           ELSE /\ candidates' = Append(candidates, Candidate(p, p.embedding))
                /\ UNCHANGED dirty
    /\ todo' = Tail(todo)
    /\ pc' = IF Tail(todo) = <<>> THEN "u_persist" ELSE "u_prepare"
    /\ UNCHANGED <<entry, lib, pdf_bytes, text_arg, xbytes, parsing_note, tried, xres,
                   parsed, http, user_profile, db, matches_list, engine_ok, top_k, gvars, mvars, cvars, wvars, avars>>

\* match.py:206-217: the single commit, or the rollback when it fails.
UploadPersist ==
    /\ pc = "u_persist"
    /\ \/ /\ DOMAIN dirty = {}
          /\ UNCHANGED <<db, dirty>>
       \/ /\ DOMAIN dirty # {}
          /\ db' = [i \in DOMAIN db |->
                      IF i \in DOMAIN dirty THEN [db[i] EXCEPT !.embedding = dirty[i]]
                      ELSE db[i]]
          /\ dirty' = NoRows
       \/ /\ DOMAIN dirty # {}
          /\ dirty' = NoRows
          /\ UNCHANGED db
    /\ pc' = "u_score"
    /\ UNCHANGED <<entry, lib, pdf_bytes, text_arg, xbytes, parsing_note, tried, xres,
                   parsed, http, user_profile, candidates, todo, matches_list,
                   engine_ok, top_k, gvars, mvars, cvars, wvars, avars>>

\* match.py:219-235: one try around the whole loop, any exception in it is
\* answered with 500.  matcher.matcher is None when the engine did not load,
\* and the attribute access raises for the first candidate.
UploadScore ==
    /\ pc = "u_score"
    /\ IF ~engine_ok \/ \E i \in DOMAIN candidates : MatchRaises(user_profile, candidates[i])
       THEN http' = 500 /\ UNCHANGED <<matches_list, top_k>>
       ELSE \E k \in TopKs :
              /\ top_k' = k
              /\ matches_list' =
                   SliceTo(SortMatches([i \in DOMAIN candidates |->
                              match_user_to_project(user_profile, candidates[i])]), k)
              /\ http' = 200
    /\ pc' = "done"
    /\ UNCHANGED <<entry, lib, pdf_bytes, text_arg, xbytes, parsing_note, tried, xres,
                   parsed, user_profile, db, dirty, candidates, todo, engine_ok,
                   gvars, mvars, cvars, wvars, avars>>

----------------------------------------------------------------------------
(* get_model, embedding_engine.py:10-20, called from request threads (the  *)
(* synchronous routes run in a thread pool) through EmbeddingEngine.model. *)

MaxCallers == 3     \* threads that call get_model

Callers == 1..MaxCallers

\* A thread reaches get_model.
CallGetModel(t) ==
    /\ tpc[t] = "idle"
    /\ tpc' = [tpc EXCEPT ![t] = "check"]
    /\ UNCHANGED <<model_, built, seen, got, xvars, mvars, cvars, wvars, avars>>

\* Line 16: if _model is None.
CheckModel(t) ==
    /\ tpc[t] = "check"
    /\ tpc' = [tpc EXCEPT ![t] = IF model_ = 0 THEN "construct" ELSE "return"]
    /\ UNCHANGED <<model_, built, seen, got, xvars, mvars, cvars, wvars, avars>>

\* Line 18, right-hand side: SentenceTransformer(_model_name) builds a new
\* model object.
ConstructModel(t) ==
    /\ tpc[t] = "construct"
    /\ built' = built + 1
    /\ seen' = [seen EXCEPT ![t] = built + 1]
    /\ tpc' = [tpc EXCEPT ![t] = "assign"]
    /\ UNCHANGED <<model_, got, xvars, mvars, cvars, wvars, avars>>

\* Line 18, the store to the global.
AssignModel(t) ==
    /\ tpc[t] = "assign"
    /\ model_' = seen[t]
    /\ tpc' = [tpc EXCEPT ![t] = "return"]
    /\ UNCHANGED <<built, seen, got, xvars, mvars, cvars, wvars, avars>>

\* Line 20: return _model reads the global again.
ReturnModel(t) ==
    /\ tpc[t] = "return"
    /\ got' = [got EXCEPT ![t] = model_]
    /\ tpc' = [tpc EXCEPT ![t] = "returned"]
    /\ UNCHANGED <<model_, built, seen, xvars, mvars, cvars, wvars, avars>>

----------------------------------------------------------------------------
(* Inputs of match_user_to_project.                                        *)

Digits == <<"1", "2", "3", "4", "5", "6", "7", "8", "9">>
ReqSkill(i) == <<"s", Digits[i]>>
UserSkill(i) == IF i % 2 = 1 THEN <<"S", ".", Digits[i]>> ELSE <<" ", "s", "-", Digits[i], "_">>
ExtraSkill(j) == <<"c", Digits[j]>>

\* The user has the first a of the project's skills (spelled differently),
\* c skills of its own and, with dup, one skill a second time.
UserSkills(a, c, dup) ==
    [i \in 1..a |-> UserSkill(i)] \o [j \in 1..c |-> ExtraSkill(j)]
    \o (IF dup /\ a >= 1 THEN <<ReqSkill(1)>> ELSE <<>>)
RequiredSkills(r) == [i \in 1..r |-> ReqSkill(i)]

SkillCases ==
    {[skills |-> UserSkills(a, c, dup), required_skills |-> RequiredSkills(r)] :
        a \in 0..MaxSkills, c \in 0..MaxExtra, dup \in BOOLEAN, r \in 0..MaxSkills}
SkillExtremes ==
    {[skills |-> UserSkills(a, 0, FALSE), required_skills |-> RequiredSkills(MaxSkills)] :
        a \in {0, MaxSkills}}
    \cup {[skills |-> UserSkills(1, 0, FALSE), required_skills |-> <<>>]}

Vecs == {<<x, y>> : x, y \in -MaxComp..MaxComp}
EmbCases ==
    {[user |-> u, project |-> p] :
        u \in {NoEmb, List(<<>>), List(<<1, 0>>), List(<<1, 1>>)},
        p \in {NoEmb, List(<<>>), List(<<1, 0, 0>>)} \cup {List(v) : v \in Vecs}}
EmbExtremes ==
    {[user |-> List(<<1, 0>>), project |-> List(v)] : v \in {<<1, 0>>, <<-1, 0>>}}
    \cup {[user |-> List(<<1, 0>>), project |-> NoEmb]}

TzUTC == <<"U">>
TzIST == <<"I">>
RestCases ==
    {[roles |-> ur, required_roles |-> rr, experience_years |-> ue,
      min_experience |-> mm[1], max_experience |-> mm[2], timezone |-> ut, project_timezone |-> pt] :
        ur \in {<<>>, <<<<"B", "E">>>>, <<RoleBackend, RoleDeveloper>>},
        rr \in {<<>>, <<RoleBackend>>, <<RoleBackend, <<"f", "e">>>>},
        ue \in {0, 3, 12, 30},
        mm \in {<<0, 10>>, <<2, 4>>, <<5, 5>>},
        ut \in {<<>>, TzUTC, TzIST},
        pt \in {<<>>, TzUTC}}
RestExtremes ==
    {[roles |-> <<RoleBackend>>, required_roles |-> <<RoleBackend>>, experience_years |-> 3,
      min_experience |-> 0, max_experience |-> 10, timezone |-> TzUTC, project_timezone |-> TzUTC],
     [roles |-> <<RoleDeveloper>>, required_roles |-> <<RoleBackend>>, experience_years |-> 0,
      min_experience |-> 5, max_experience |-> 5, timezone |-> TzIST, project_timezone |-> TzUTC]}

\* The project lists its first skill a second time, spelled as the user
\* spells it.
SkillRepeatCases ==
    {[skills |-> UserSkills(a, c, FALSE),
      required_skills |-> RequiredSkills(r) \o <<UserSkill(1)>>] :
        a \in 0..2, c \in {0, MaxExtra}, r \in 1..(MaxSkills - 1)}

\* Every case of one group of fields, with the other groups at their extremes.
MatchCases == (SkillCases \X EmbExtremes \X RestExtremes)
              \cup (SkillExtremes \X EmbCases \X RestExtremes)
              \cup (SkillExtremes \X EmbExtremes \X RestCases)
              \cup (SkillRepeatCases \X EmbExtremes \X RestExtremes)

UserData(c) ==
    [id |-> 7, skills |-> c[1].skills, embedding |-> c[2].user, roles |-> c[3].roles,
     experience_years |-> c[3].experience_years, timezone |-> c[3].timezone]
ProjectData(c) ==
    [id |-> 1, required_skills |-> c[1].required_skills, embedding |-> c[2].project,
     required_roles |-> c[3].required_roles, min_experience |-> c[3].min_experience,
     max_experience |-> c[3].max_experience, timezone |-> c[3].project_timezone]

NotMatched == [called |-> FALSE]

\* One call of MatchingEngine.match_user_to_project; the sub-scores are its
\* locals skill_score, emb_score, role_score, exp_score and avail_score.
MatchCall ==
    /\ ~m_out.called
    /\ m_out' = [called |-> TRUE,
                 sub |-> SubScores(m_user, m_proj),
                 match |-> match_user_to_project(m_user, m_proj)]
    /\ UNCHANGED <<m_user, m_proj, xvars, gvars, cvars, wvars, avars>>

----------------------------------------------------------------------------
(* Text synthesis, embedding_engine.py:46-186.  The text is " | ".join of  *)
(* its parts; a part is kept as its label and the items joined by ", "     *)
(* after it.  A skill or a role is an opaque item (a number); free text    *)
(* (bio, title, ...) is a string shape as above.                           *)

SKILLS_IN_TEXT == 20
INTERESTS_IN_TEXT == 5
BIO_CHARS == 200
DESCRIPTION_CHARS == 300
IDEA_CHARS == 200

PyNone == [kind |-> "None", v |-> <<>>]
Dict(d) == [kind |-> "dict", v |-> d]
\* Truth value of None, a list or a dict.
ValueTruthy(x) ==
    CASE x.kind = "list" -> x.v # <<>>
      [] x.kind = "dict" -> DOMAIN x.v # {}
      [] OTHER -> FALSE
\* x or y
Or(x, y) == IF ValueTruthy(x) THEN x ELSE y

Reverse(q) == [i \in 1..Len(q) |-> q[Len(q) + 1 - i]]
\* list(set(...)): the elements once each, in the iteration order of the
\* set, which the hashes of the process decide.
SetToList(S, hash_order) == IF hash_order = "asc" THEN Ascending(S) ELSE Reverse(Ascending(S))

Part(label, items) == [label |-> label, items |-> items]

\* embedding_engine.py:46-61
normalize_skills(skills, hash_order) ==
    CASE skills.kind = "dict" ->
           SetToList(UNION {SeqToSet(skills.v[cat]) : cat \in DOMAIN skills.v}, hash_order)
      [] skills.kind = "list" -> SetToList(SeqToSet(skills.v), hash_order)
      [] OTHER -> <<>>

\* embedding_engine.py:63-126
create_profile_text(profile_data, hash_order) ==
    LET roles == Get(profile_data, "roles", <<>>)
        skills == normalize_skills(
                      Or(Get(profile_data, "skills", PyNone),
                         Or(Get(profile_data, "skills_by_category", PyNone), List(<<>>))),
                      hash_order)
        skills_text == SliceTo(skills, SKILLS_IN_TEXT)
        exp_years == Get(profile_data, "experience_years", 0)
        exp_level == IF exp_years <= 1 THEN "Junior"
                     ELSE IF exp_years <= 3 THEN "Mid-level"
                     ELSE IF exp_years <= 7 THEN "Senior" ELSE "Expert"
        hackathon_data == Get(profile_data, "hackathons", [has_hackathon_experience |-> FALSE])
        wins == Get(hackathon_data, "wins_breakdown", [first |-> 0])
        bio == Get(profile_data, "bio", EmptyStr)
        interests == Get(profile_data, "interests", <<>>)
        project_types == Get(profile_data, "project_types", <<>>)
    IN  (IF roles # <<>>
         THEN <<Part("Roles", roles), Part("Position", roles)>> ELSE <<>>)
        \o (IF skills # <<>>
            THEN <<Part("Technical Skills", skills_text), Part("Expertise", skills_text),
                   Part("Proficient in", skills_text)>>
            ELSE <<>>)
        \o (IF exp_years # 0
            THEN <<Part("Experience", <<exp_years, exp_level>>)>> ELSE <<>>)
        \o (IF ~Get(hackathon_data, "has_hackathon_experience", FALSE) THEN <<>>
            ELSE IF Get(wins, "first", 0) > 0
            THEN <<Part("Hackathon winner with", <<wins.first>>)>>
            ELSE IF Get(wins, "second", 0) > 0
            THEN <<Part("Experienced hackathon participant with top placements", <<>>)>>
            ELSE IF Get(hackathon_data, "total_hackathons", 0) >= 3
            THEN <<Part("Active hackathon participant", <<>>)>>
            ELSE <<>>)
        \o (IF StrLen(bio) > 0
            THEN <<Part("About", <<Prefix(bio, BIO_CHARS)>>)>> ELSE <<>>)
        \o (IF interests # <<>>
            THEN <<Part("Interests", SliceTo(interests, INTERESTS_IN_TEXT))>> ELSE <<>>)
        \o (IF project_types # <<>>
            THEN <<Part("Looking to build", project_types)>> ELSE <<>>)

\* embedding_engine.py:128-164
create_project_text(project_data, hash_order) ==
    LET title == Get(project_data, "title", EmptyStr)
        description == Get(project_data, "description", EmptyStr)
        required_roles == Get(project_data, "required_roles", <<>>)
        skills == normalize_skills(Or(Get(project_data, "required_skills", PyNone), List(<<>>)),
                                   hash_order)
        min_exp == Get(project_data, "min_experience", 0)
        max_exp == Get(project_data, "max_experience", 10)
        project_type == Get(project_data, "project_type", EmptyStr)
    IN  (IF StrLen(title) > 0 THEN <<Part("Project", <<title>>)>> ELSE <<>>)
        \o (IF StrLen(description) > 0
            THEN <<Part("Description", <<Prefix(description, DESCRIPTION_CHARS)>>)>> ELSE <<>>)
        \o (IF required_roles # <<>>
            THEN <<Part("Looking for", required_roles), Part("Need", required_roles)>> ELSE <<>>)
        \o (IF skills # <<>>
            THEN <<Part("Required skills", skills), Part("Tech stack", skills),
                   Part("Technologies", skills)>>
            ELSE <<>>)
        \o (IF min_exp > 0 \/ max_exp < 10
            THEN <<Part("Experience needed", <<min_exp, max_exp>>)>> ELSE <<>>)
        \o (IF StrLen(project_type) > 0 THEN <<Part("Category", <<project_type>>)>> ELSE <<>>)

\* embedding_engine.py:166-186
create_teammate_request_text(request_data) ==
    LET project_idea == Get(request_data, "project_idea", EmptyStr)
        roles == Get(request_data, "looking_for_roles", <<>>)
        skills == Get(request_data, "looking_for_skills", List(<<>>)).v
    IN  (IF StrLen(project_idea) > 0
         THEN <<Part("Building", <<Prefix(project_idea, IDEA_CHARS)>>)>> ELSE <<>>)
        \o (IF roles # <<>>
            THEN <<Part("Looking for", roles), Part("Need teammates with roles", roles)>>
            ELSE <<>>)
        \o (IF skills # <<>>
            THEN <<Part("Need skills", skills), Part("Required expertise", skills),
                   Part("Tech stack", skills)>>
            ELSE <<>>)

\* The labels of the parts that list skills.
SkillLabels == {"Technical Skills", "Expertise", "Proficient in", "Required skills",
                "Tech stack", "Technologies", "Need skills", "Required expertise"}

----------------------------------------------------------------------------
(* ConnectionManager and websocket_endpoint, api/websocket.py.  One        *)
(* coroutine runs between two awaits: an action is the code from one await *)
(* to the next.                                                            *)

MaxSockets == 3     \* websocket connections opened, at most

Sockets == 1..MaxSockets
Rooms == {1, 2}
NoConnections == [room \in {} |-> <<>>]

\* list.remove(x): the first occurrence goes.
RECURSIVE ListRemove(_, _)
ListRemove(list, x) ==
    IF list = <<>> THEN <<>>
    ELSE IF Head(list) = x THEN Tail(list)
    ELSE <<Head(list)>> \o ListRemove(Tail(list), x)

\* websocket.py:14-18, after websocket.accept() returned.
connect(connections, websocket, room_id) ==
    LET known == IF room_id \in DOMAIN connections THEN connections
                 ELSE (room_id :> <<>>) @@ connections
    IN  [known EXCEPT ![room_id] = Append(@, websocket)]

\* websocket.py:20-22
disconnect(connections, websocket, room_id) ==
    IF room_id \in DOMAIN connections
    THEN [connections EXCEPT ![room_id] = ListRemove(@, websocket)]
    ELSE connections

\* websocket.py:40-43: verify_token and int(payload.get("sub")); a failure
\* goes to the handler of line 80, which closes the socket.
WsVerify(s) ==
    /\ h_pc[s] = "start"
    /\ \E ok \in BOOLEAN : h_pc' = [h_pc EXCEPT ![s] = IF ok THEN "connect" ELSE "ended"]
    /\ UNCHANGED <<active_connections, h_room, b_idx, stale_sends, xvars, gvars, mvars, cvars, avars>>

\* websocket.py:46, 14-18: accept, then the socket is appended to its room;
\* a failing accept goes to the handler of line 80.
WsConnect(s) ==
    /\ h_pc[s] = "connect"
    /\ \/ /\ active_connections' = connect(active_connections, s, h_room[s])
          /\ h_pc' = [h_pc EXCEPT ![s] = "receive"]
       \/ /\ h_pc' = [h_pc EXCEPT ![s] = "ended"]
          /\ UNCHANGED active_connections
    /\ UNCHANGED <<h_room, b_idx, stale_sends, xvars, gvars, mvars, cvars, avars>>

\* websocket.py:52-78: receive_json returns an event to broadcast, or raises
\* WebSocketDisconnect (handled at line 76: manager.disconnect), or the
\* message is not JSON or not an object and json.loads or data.get raises
\* (handled at line 80: the socket is closed, nothing else).
WsReceive(s) ==
    /\ h_pc[s] = "receive"
    /\ \E outcome \in {"event", "WebSocketDisconnect", "malformed"} :
         CASE outcome = "event" ->
                /\ h_pc' = [h_pc EXCEPT ![s] = "broadcast"]
                /\ b_idx' = [b_idx EXCEPT ![s] = 1]
                /\ UNCHANGED active_connections
           [] outcome = "WebSocketDisconnect" ->
                /\ active_connections' = disconnect(active_connections, s, h_room[s])
                /\ h_pc' = [h_pc EXCEPT ![s] = "ended"]
                /\ UNCHANGED b_idx
           [] OTHER ->
                /\ h_pc' = [h_pc EXCEPT ![s] = "ended"]
                /\ UNCHANGED <<active_connections, b_idx>>
    /\ UNCHANGED <<h_room, stale_sends, xvars, gvars, mvars, cvars, avars>>

\* websocket.py:24-30: one turn of the loop over the room's list, which is
\* read by position; send_json to a closed socket raises and the except
\* clause logs it.  After the last element the handler receives again.
WsBroadcast(s) ==
    /\ h_pc[s] = "broadcast"
    /\ LET list == IF h_room[s] \in DOMAIN active_connections
                   THEN active_connections[h_room[s]] ELSE <<>>
       IN  IF b_idx[s] <= Len(list)
           THEN /\ stale_sends' = IF h_pc[list[b_idx[s]]] = "ended"
                                  THEN stale_sends \cup {list[b_idx[s]]} ELSE stale_sends
                /\ b_idx' = [b_idx EXCEPT ![s] = @ + 1]
                /\ UNCHANGED h_pc
           ELSE /\ h_pc' = [h_pc EXCEPT ![s] = "receive"]
                /\ b_idx' = [b_idx EXCEPT ![s] = 0]
                /\ UNCHANGED stale_sends
    /\ UNCHANGED <<active_connections, h_room, xvars, gvars, mvars, cvars, avars>>

----------------------------------------------------------------------------

(* handle_project_action, api/routes/projects.py:195-243.  The route is a  *)
(* plain def: requests run in threads of the pool, each with a session of  *)
(* its own, and meet only in the database.  A statement sent to the        *)
(* database is one step.  The matches table (models.py:48-57) has a        *)
(* primary key and no unique constraint on (user_id, project_id).          *)

MaxRequests == 2    \* action requests in flight, at most

Requests == 1..MaxRequests
Users == {1, 2}
ProjectTable == {1}
PathProjectIds == {1, 2}
ActionStrings == {"match", "Pass", "like"}
ActionInputs ==
    {[user |-> u, project_id |-> p, action |-> a] :
        u \in Users, p \in PathProjectIds, a \in ActionStrings}

MatchRow(user_id, project_id, action) ==
    [user_id |-> user_id, project_id |-> project_id, action |-> action]
NoMatchRows == [i \in {} |-> MatchRow(0, 0, "")]
NoExisting == [id |-> 0, action |-> ""]
Pairs == Users \X ProjectTable
\* The rows of a user and a project.
RowsOf(table, user_id, project_id) ==
    {i \in DOMAIN table : table[i].user_id = user_id /\ table[i].project_id = project_id}

\* projects.py:206-209
ActionValidate(r) ==
    /\ r_pc[r] = "start"
    /\ IF str_lower(r_in[r].action) \notin {"match", "pass"}
       THEN /\ r_status' = [r_status EXCEPT ![r] = 400]
            /\ r_pc' = [r_pc EXCEPT ![r] = "done"]
       ELSE /\ r_pc' = [r_pc EXCEPT ![r] = "project"]
            /\ UNCHANGED r_status
    /\ UNCHANGED <<rows, r_in, r_seen, last_commit, xvars, gvars, mvars, cvars, wvars>>

\* projects.py:211-214
ActionFindProject(r) ==
    /\ r_pc[r] = "project"
    /\ IF r_in[r].project_id \notin ProjectTable
       THEN /\ r_status' = [r_status EXCEPT ![r] = 404]
            /\ r_pc' = [r_pc EXCEPT ![r] = "done"]
       ELSE /\ r_pc' = [r_pc EXCEPT ![r] = "existing"]
            /\ UNCHANGED r_status
    /\ UNCHANGED <<rows, r_in, r_seen, last_commit, xvars, gvars, mvars, cvars, wvars>>

\* projects.py:216-220: .first() of a query without ORDER BY returns one of
\* the committed rows of the pair, or None.
ActionFindExisting(r) ==
    /\ r_pc[r] = "existing"
    /\ LET found == RowsOf(rows, r_in[r].user, r_in[r].project_id)
       IN  IF found = {}
           THEN r_seen' = [r_seen EXCEPT ![r] = NoExisting]
           ELSE \E i \in found :
                  r_seen' = [r_seen EXCEPT ![r] = [id |-> i, action |-> rows[i].action]]
    /\ r_pc' = [r_pc EXCEPT ![r] = "commit"]
    /\ UNCHANGED <<rows, r_in, r_status, last_commit, xvars, gvars, mvars, cvars, wvars>>

\* projects.py:222-243: the flush and the commit.  For a loaded row the
\* session sends an UPDATE of the attributes whose value differs from the
\* loaded one (none when the action is the one it loaded); otherwise it
\* sends the INSERT of a new row.
ActionCommit(r) ==
    /\ r_pc[r] = "commit"
    /\ LET action == str_lower(r_in[r].action)
           new_id == Cardinality(DOMAIN rows) + 1
       IN  /\ rows' = IF r_seen[r].id # 0
                      THEN IF action # r_seen[r].action
                           THEN [rows EXCEPT ![r_seen[r].id].action = action]
                           ELSE rows
                      ELSE (new_id :> MatchRow(r_in[r].user, r_in[r].project_id, action)) @@ rows
           /\ last_commit' = [last_commit EXCEPT ![<<r_in[r].user, r_in[r].project_id>>] = action]
    /\ r_status' = [r_status EXCEPT ![r] = 200]
    /\ r_pc' = [r_pc EXCEPT ![r] = "done"]
    /\ UNCHANGED <<r_in, r_seen, xvars, gvars, mvars, cvars, wvars>>

----------------------------------------------------------------------------

(* Single calls of the engine's functions: c_op names the function, c_in   *)
(* holds the arguments and c_out what the call returned.                   *)

MaxCandidates == 3  \* candidates in one call of rank_candidates, at most

\* matching_engine.py:185-191: the matches of the candidates that did not
\* raise, in the order of the candidates.  candidate_index is not a field of
\* Match: it records which candidate the object was computed from.
RECURSIVE ScoredMatches(_, _, _)
ScoredMatches(cands, project_data, i) ==
    IF i > Len(cands) THEN <<>>
    ELSE (IF MatchRaises(cands[i], project_data) THEN <<>>
          ELSE <<match_user_to_project(cands[i], project_data) @@ [candidate_index |-> i]>>)
         \o ScoredMatches(cands, project_data, i + 1)

\* matching_engine.py:183-194
rank_candidates(cands, project_data, k) ==
    SliceTo(SortMatches(ScoredMatches(cands, project_data, 1)), k)

\* The project the candidates are ranked for: five required skills.
RankProject ==
    [id |-> 900, required_skills |-> RequiredSkills(5), required_roles |-> <<>>,
     embedding |-> List(<<1, 0>>), min_experience |-> 0, max_experience |-> 10,
     timezone |-> <<>>]

\* Candidates: one with all five skills; one with four of them and four of
\* its own; one with a single skill; one with none; one whose embedding is a
\* numpy array.
RankCandidate(kind) ==
    [skills |-> CASE kind = "all" -> UserSkills(5, 0, FALSE)
                  [] kind = "padded" -> UserSkills(4, 4, FALSE)
                  [] kind = "one" -> UserSkills(1, 0, FALSE)
                  [] OTHER -> <<>>,
     embedding |-> IF kind = "array" THEN NdArray(<<1, 0>>) ELSE List(<<1, 0>>),
     roles |-> <<RoleBackend>>, experience_years |-> 3, timezone |-> <<>>]
RankKinds == {"all", "padded", "one", "none", "array"}
RankLists ==
    UNION {{[i \in 1..n |-> RankCandidate(ks[i]) @@ [id |-> 10 + i]] : ks \in [1..n -> RankKinds]} :
              n \in 0..MaxCandidates}
RankInputs ==
    {[candidates |-> cs, project_data |-> RankProject, top_k |-> k] :
        cs \in RankLists, k \in TopKs \cup {2}}

CallRankCandidates ==
    /\ c_op = "rank_candidates" /\ ~c_out.called
    /\ c_out' = Returns(rank_candidates(c_in.candidates, c_in.project_data, c_in.top_k))
    /\ UNCHANGED <<c_op, c_in, xvars, gvars, mvars, wvars, avars>>

\* Arguments of ensure_embedding, with the state of the wrapper and the
\* behaviour of the embedder during the call.
EnsureInputs ==
    {[engine_loaded |-> e, kind |-> k, out |-> o] :
        e \in BOOLEAN, k \in {"profile", "project"}, o \in EmbedOutcomes}

CallEnsureEmbedding ==
    /\ c_op = "ensure_embedding" /\ ~c_out.called
    /\ c_out' = ensure_embedding_call(c_in.engine_loaded, c_in.out)
    /\ UNCHANGED <<c_op, c_in, xvars, gvars, mvars, wvars, avars>>

\* Vectors of two components, some of three, and the empty one.
CosineVecs == Vecs \cup {<<>>, <<0, 0, 0>>, <<1, 0, 0>>, <<0, 1, 1>>}
CosineInputs == {[vec1 |-> a, vec2 |-> b] : a, b \in CosineVecs}

CallCosineSimilarity ==
    /\ c_op = "cosine_similarity" /\ ~c_out.called
    /\ c_out' = cosine_similarity_call(c_in.vec1, c_in.vec2)
    /\ UNCHANGED <<c_op, c_in, xvars, gvars, mvars, wvars, avars>>

\* Texts of one to MaxTokens of the tokens, separated by ", ".
RECURSIVE JoinTokens(_, _)
JoinTokens(tokens, sep) ==
    IF Len(tokens) = 0 THEN ""
    ELSE IF Len(tokens) = 1 THEN tokens[1]
    ELSE tokens[1] \o sep \o JoinTokens(Tail(tokens), sep)
SkillTokens == {"React", "ReactJS", "react.js", "Python", "c#"}
SkillTexts ==
    UNION {{JoinTokens(ts, ", ") : ts \in [1..n -> SkillTokens]} : n \in 1..MaxTokens}
SkillInputs == {[text |-> t] : t \in SkillTexts}

\* Phrases of a resume text with the number N each one states as years of
\* experience (-1: the phrase is not about years of experience).
YearsPhrases ==
    {[text |-> "5 years of experience", n |-> 5],
     [text |-> "3 years of experience", n |-> 3],
     [text |-> "12+ yrs experience", n |-> 12],
     [text |-> "2 Years  Of Experience", n |-> 2],
     [text |-> "150 years of experience", n |-> 150],
     [text |-> "8 years in Python", n |-> -1]}
YearsInputs ==
    UNION {{[text |-> JoinTokens([i \in 1..k |-> ps[i].text], "... "),
             stated |-> [i \in 1..k |-> ps[i].n]] : ps \in [1..k -> YearsPhrases]} :
              k \in 1..MaxTokens}

CallExtractExperienceYears ==
    /\ c_op = "extract_experience_years" /\ ~c_out.called
    /\ c_out' = Returns(extract_experience_years(c_in.text))
    /\ UNCHANGED <<c_op, c_in, xvars, gvars, mvars, wvars, avars>>

\* Records to synthesize a text of: n skills (with rep, the first one is
\* listed a second time), a role or none, some free text.
SkillList(n, rep) == [i \in 1..n |-> i] \o (IF rep /\ n >= 1 THEN <<1>> ELSE <<>>)
SkillCounts == Around(0) \cup Around(SKILLS_IN_TEXT)
TextRecords(kind) ==
    {CASE kind = "profile" ->
            [skills |-> List(SkillList(n, rep)), roles |-> roles, experience_years |-> 5,
             bio |-> Str("bio", 0, BIO_CHARS + 1)]
       [] kind = "profile_by_category" ->
            [skills_by_category |-> Dict([frontend |-> SkillList(n, rep), backend |-> SkillList(1, FALSE)]),
             roles |-> roles, experience_years |-> 0,
             hackathons |-> [has_hackathon_experience |-> TRUE,
                             wins_breakdown |-> [first |-> 0, second |-> 1],
                             total_hackathons |-> 1]]
       [] kind = "project" ->
            [title |-> Str("title", 0, 9), required_skills |-> List(SkillList(n, rep)),
             required_roles |-> roles, min_experience |-> 2, max_experience |-> 5]
       [] OTHER ->
            [project_idea |-> Str("idea", 0, IDEA_CHARS + 1),
             looking_for_skills |-> List(SkillList(n, rep)), looking_for_roles |-> roles] :
        n \in SkillCounts, rep \in BOOLEAN, roles \in {<<>>, <<101>>, <<101, 102>>}}
TextRecordInputs ==
    UNION {{[kind |-> k, record |-> r, hash_order |-> o] :
               r \in TextRecords(k), o \in {"asc", "desc"}} :
              k \in {"profile", "profile_by_category", "project", "teammate_request"}}

\* create_profile_text, create_project_text or create_teammate_request_text.
CallCreateText ==
    /\ c_op = "create_text" /\ ~c_out.called
    /\ c_out' = Returns(CASE c_in.kind \in {"profile", "profile_by_category"} ->
                                create_profile_text(c_in.record, c_in.hash_order)
                           [] c_in.kind = "project" ->
                                create_project_text(c_in.record, c_in.hash_order)
                           [] OTHER -> create_teammate_request_text(c_in.record))
    /\ UNCHANGED <<c_op, c_in, xvars, gvars, mvars, wvars, avars>>

\* Skill strings for normalize_skill: letters of either case, the characters
\* it removes and a tab.
MaxSkillChars == 3  \* characters of a skill string, at most
SkillAlphabet == {"S", "s", ".", " ", "\t", "-", "_"}
SkillStrings == UNION {[1..n -> SkillAlphabet] : n \in 0..MaxSkillChars}
NormalizeInputs == {[skill |-> s] : s \in SkillStrings}

CallNormalizeSkill ==
    /\ c_op = "normalize_skill" /\ ~c_out.called
    /\ c_out' = Returns(normalize_skill(c_in.skill))
    /\ UNCHANGED <<c_op, c_in, xvars, gvars, mvars, wvars, avars>>

\* Years of experience of a user and the range a project asks for; nothing
\* keeps a stored range from having its minimum above its maximum.
MaxYears == 9       \* years of experience, at most
ExperienceInputs ==
    {[user_exp |-> u, required_exp_min |-> lo, required_exp_max |-> hi] :
        u, lo, hi \in 0..MaxYears}

CallCalculateExperienceFit ==
    /\ c_op = "calculate_experience_fit" /\ ~c_out.called
    /\ c_out' = Returns(calculate_experience_fit(c_in.user_exp, c_in.required_exp_min,
                                                 c_in.required_exp_max))
    /\ UNCHANGED <<c_op, c_in, xvars, gvars, mvars, wvars, avars>>

RECURSIVE Repeat(_, _)
Repeat(c, n) ==
    IF n = 0 THEN ""
    ELSE IF n % 2 = 1 THEN c \o Repeat(c, n - 1)
    ELSE LET half == Repeat(c, n \div 2) IN half \o half
\* Phrases of a resume text with the number of occurrences of competition
\* keywords in each; the last one is longer than the window.
HackathonPhrases ==
    {[text |-> "Hackathon", hits |-> 1],
     [text |-> "devpost competition", hits |-> 2],
     [text |-> "winner", hits |-> 0],
     [text |-> "2nd", hits |-> 0],
     [text |-> "Gold", hits |-> 0],
     [text |-> Repeat(".", WINDOW + 1), hits |-> 0]}
RECURSIVE Sum(_)
Sum(nums) == IF nums = <<>> THEN 0 ELSE Head(nums) + Sum(Tail(nums))
HackathonInputs ==
    UNION {{[text |-> JoinTokens([i \in 1..k |-> ps[i].text], " "),
             hits |-> Sum([i \in 1..k |-> ps[i].hits])] : ps \in [1..k -> HackathonPhrases]} :
              k \in 1..MaxTokens}

CallExtractHackathonWins ==
    /\ c_op = "extract_hackathon_wins" /\ ~c_out.called
    /\ c_out' = Returns(extract_hackathon_wins(c_in.text))
    /\ UNCHANGED <<c_op, c_in, xvars, gvars, mvars, wvars, avars>>

\* extract_skills, and the all_skills parse_resume derives from it.
CallExtractSkills ==
    /\ c_op = "extract_skills" /\ ~c_out.called
    /\ c_out' = Returns([skills_by_category |-> extract_skills(c_in.text),
                         all_skills |-> all_skills(extract_skills(c_in.text))])
    /\ UNCHANGED <<c_op, c_in, xvars, gvars, mvars, wvars, avars>>

----------------------------------------------------------------------------
(* Specifications.                                                         *)

XIdle ==
    /\ entry = "none" /\ lib = "none" /\ pdf_bytes = Bytes(0, 0, 0)
    /\ text_arg = EmptyStr /\ pc = "done" /\ xbytes = Bytes(0, 0, 0)
    /\ parsing_note = None /\ tried = <<>> /\ xres = NoResult /\ parsed = NotParsed
    /\ http = 0 /\ user_profile = NotParsed /\ db = NoRows /\ dirty = NoRows
    /\ candidates = <<>> /\ todo = <<>> /\ matches_list = <<>>
    /\ engine_ok = TRUE /\ top_k = 10
GIdle ==
    /\ model_ = 0 /\ built = 0
    /\ tpc = [t \in {} |-> "idle"] /\ seen = [t \in {} |-> 0] /\ got = [t \in {} |-> 0]
MIdle ==
    /\ m_user = NotMatched /\ m_proj = NotMatched /\ m_out = [called |-> TRUE]
CIdle ==
    /\ c_op = "none" /\ c_in = <<>> /\ c_out = [called |-> TRUE]
WIdle ==
    /\ active_connections = NoConnections /\ stale_sends = {}
    /\ h_pc = [s \in {} |-> "ended"] /\ h_room = [s \in {} |-> 0] /\ b_idx = [s \in {} |-> 0]
AIdle ==
    /\ rows = NoMatchRows /\ last_commit = [pair \in {} |-> "none"]
    /\ r_pc = [r \in {} |-> "done"] /\ r_in = [r \in {} |-> 0]
    /\ r_seen = [r \in {} |-> NoExisting] /\ r_status = [r \in {} |-> 0]

\* A database of one project whose embedding was never computed, and an
\* upload that decodes to a text long enough to parse.
OneProject == [i \in {1} |-> ProjectRow(1, NoEmb)]
ResumeBytes == Bytes(0, MIN_PARSE_CHARS + 1, 0)

\* A run is one call of extract_text_from_pdf, of parse_resume, or one
\* upload_and_match request.
XInit ==
    /\ entry \in {"extract", "parse", "upload"}
    /\ lib \in {"pdfplumber", "PyPDF2", "none"}
    /\ pdf_bytes \in ByteInputs
    /\ \/ entry # "upload" /\ db = NoRows /\ engine_ok = TRUE
       \/ entry = "upload" /\ db = OneProject /\ engine_ok = TRUE
       \/ entry = "upload" /\ pdf_bytes = ResumeBytes /\ db \in Databases
          /\ engine_ok \in BOOLEAN
    /\ text_arg \in IF entry = "parse" THEN TextInputs ELSE {EmptyStr}
    /\ pc = CASE entry = "extract" -> "x_start"
              [] entry = "parse" -> "p_start"
              [] OTHER -> "u_read"
    /\ xbytes = Bytes(0, 0, 0)
    /\ parsing_note = None /\ tried = <<>> /\ xres = NoResult /\ parsed = NotParsed
    /\ http = 0 /\ user_profile = NotParsed
    /\ dirty = NoRows
    /\ candidates = <<>> /\ todo = <<>> /\ matches_list = <<>>
    /\ top_k = 10

Next ==
    \/ ExtractStart \/ Strategy1 \/ Strategy2 \/ Strategy3
    \/ ParseStart \/ ParseAfter
    \/ UploadRead \/ UploadCheck \/ UploadEmbed \/ UploadFetch
    \/ UploadPrepare \/ UploadPersist \/ UploadScore

Init == XInit /\ GIdle /\ MIdle /\ CIdle /\ WIdle /\ AIdle
Spec == Init /\ [][Next]_vars

GInit ==
    /\ model_ = 0 /\ built = 0
    /\ tpc = [t \in Callers |-> "idle"]
    /\ seen = [t \in Callers |-> 0]
    /\ got = [t \in Callers |-> 0]
NextGetModel ==
    \E t \in Callers :
        \/ CallGetModel(t) \/ CheckModel(t) \/ ConstructModel(t)
        \/ AssignModel(t) \/ ReturnModel(t)
InitGetModel == XIdle /\ GInit /\ MIdle /\ CIdle /\ WIdle /\ AIdle
SpecGetModel == InitGetModel /\ [][NextGetModel]_vars

WInit ==
    /\ active_connections = NoConnections /\ stale_sends = {}
    /\ h_pc = [s \in Sockets |-> "start"]
    /\ h_room \in [Sockets -> Rooms]
    /\ b_idx = [s \in Sockets |-> 0]
NextWebsocket ==
    \E s \in Sockets : WsVerify(s) \/ WsConnect(s) \/ WsReceive(s) \/ WsBroadcast(s)
InitWebsocket == XIdle /\ GIdle /\ MIdle /\ CIdle /\ WInit /\ AIdle
SpecWebsocket == InitWebsocket /\ [][NextWebsocket]_vars

\* The table is empty, or user 1 has swiped right on project 1 before.
AInit ==
    /\ \/ /\ rows = NoMatchRows
          /\ last_commit = [pair \in Pairs |-> "none"]
       \/ /\ rows = (1 :> MatchRow(1, 1, "match"))
          /\ last_commit = [pair \in Pairs |-> IF pair = <<1, 1>> THEN "match" ELSE "none"]
    /\ r_pc = [r \in Requests |-> "start"]
    /\ r_in \in [Requests -> ActionInputs]
    /\ r_seen = [r \in Requests |-> NoExisting]
    /\ r_status = [r \in Requests |-> 0]
NextAction ==
    \E r \in Requests :
        ActionValidate(r) \/ ActionFindProject(r) \/ ActionFindExisting(r) \/ ActionCommit(r)
InitAction == XIdle /\ GIdle /\ MIdle /\ CIdle /\ WIdle /\ AInit
SpecAction == InitAction /\ [][NextAction]_vars

CInit ==
    /\ c_op \in {"rank_candidates", "ensure_embedding", "cosine_similarity",
                 "extract_skills", "extract_experience_years", "create_text",
                 "normalize_skill", "calculate_experience_fit",
                 "extract_hackathon_wins"}
    /\ c_in \in CASE c_op = "rank_candidates" -> RankInputs
                 [] c_op = "ensure_embedding" -> EnsureInputs
                 [] c_op = "cosine_similarity" -> CosineInputs
                 [] c_op = "extract_skills" -> SkillInputs
                 [] c_op = "extract_experience_years" -> YearsInputs
                 [] c_op = "create_text" -> TextRecordInputs
                 [] c_op = "normalize_skill" -> NormalizeInputs
                 [] c_op = "calculate_experience_fit" -> ExperienceInputs
                 [] c_op = "extract_hackathon_wins" -> HackathonInputs
    /\ c_out = NotCalled
NextCalls ==
    \/ CallRankCandidates
    \/ CallEnsureEmbedding
    \/ CallCosineSimilarity
    \/ CallExtractSkills
    \/ CallExtractExperienceYears
    \/ CallCreateText
    \/ CallNormalizeSkill
    \/ CallCalculateExperienceFit
    \/ CallExtractHackathonWins
InitCalls == XIdle /\ GIdle /\ MIdle /\ CInit /\ WIdle /\ AIdle
SpecCalls == InitCalls /\ [][NextCalls]_vars

MInit ==
    /\ \E c \in MatchCases : m_user = UserData(c) /\ m_proj = ProjectData(c)
    /\ m_out = NotMatched
InitMatch == XIdle /\ GIdle /\ MInit /\ CIdle /\ WIdle /\ AIdle
NextMatch == MatchCall
SpecMatch == InitMatch /\ [][NextMatch]_vars

----------------------------------------------------------------------------
(* Properties.                                                             *)

Returned == xres.source # "pending"
LastTried == IF tried = <<>> THEN "nothing" ELSE tried[Len(tried)]

\* C1: whenever the primary decoder (pdfplumber) was tried and the plain-text
\* decode is reached, the secondary decoder (PyPDF2) was tried in between:
\* the decoders run in the order primary, secondary, plain text.
C1_SecondaryBeforePlainText ==
    \A i \in DOMAIN tried :
        (tried[i] = "utf8" /\ \E j \in 1..(i - 1) : tried[j] = "pdfplumber")
            => \E j \in 1..(i - 1) : tried[j] = "PyPDF2"

\* C2: in every result extract_text_from_pdf returns, the source tag is
\* "none" exactly when the text is the empty string.
C2_NoneIffEmpty ==
    Returned => (xres.source = "none" <=> xres.text = EmptyStr)

\* C2 witness: the bytes decode to some text, it is refused, and the result
\* is the empty text with source none.
C2_Witness ==
    /\ Returned /\ LastTried = "utf8"
    /\ StrLen(Strip(DecodeIgnore(xbytes))) > 0
    /\ xres.source = "none" /\ xres.text = EmptyStr

\* C3 as stated: every total failure, the empty input included, returns the
\* empty text, source none and the note no_text_extracted.
C3_TotalFailureNote ==
    (Returned /\ (xres.text = EmptyStr \/ BytesLen(pdf_bytes) = 0))
        => xres = ExtractionResult(EmptyStr, "none", "no_text_extracted")

\* C3 amended: a call of extract_text_from_pdf always ends with a result, and
\* every total failure returns the empty text and source none, with the note
\* no_text_extracted, except that the empty input has the note empty_input.
C3_TotalFailureNoteAmended ==
    /\ (entry = "extract" /\ pc = "done") => Returned
    /\ (Returned /\ (xres.text = EmptyStr \/ BytesLen(pdf_bytes) = 0))
        => xres = ExtractionResult(EmptyStr, "none",
                      IF BytesLen(pdf_bytes) = 0 THEN "empty_input"
                      ELSE "no_text_extracted")

\* C3 witness: pdfplumber failed with a pdfminer error, PyPDF2 and the decode
\* gave nothing usable, and the call returned the total failure.
C3_Witness ==
    /\ tried = <<"pdfplumber", "PyPDF2", "utf8">>
    /\ xres = ExtractionResult(EmptyStr, "none", "no_text_extracted")

\* The stripped lossy decoding of the bytes the decoders are given.
DecodedInput == Strip(DecodeIgnore(Slice(pdf_bytes, MAX_PDF_BYTES)))

\* C4 as stated: when the paginated decoders yield no text and the stripped
\* decoding has at least 30 characters, the result is that text with the
\* source text_fallback.
C4_FallbackFromThirty ==
    (Returned /\ LastTried = "utf8" /\ StrLen(DecodedInput) >= MIN_FALLBACK_CHARS)
        => xres.text = DecodedInput /\ xres.source = "text_fallback"

\* C4 amended: when the paginated decoders yield no text and the stripped
\* decoding of the (capped) bytes has more than 30 characters, the result is
\* that text with the source text_fallback.
C4_FallbackAboveThirty ==
    (Returned /\ LastTried = "utf8" /\ StrLen(DecodedInput) > MIN_FALLBACK_CHARS)
        => xres.text = DecodedInput /\ xres.source = "text_fallback"

\* C4 witness: pdfplumber was tried and gave nothing, and the 31 characters
\* the bytes decode to are returned as text_fallback.
C4_Witness ==
    /\ Returned /\ tried = <<"pdfplumber", "utf8">>
    /\ StrLen(DecodedInput) = MIN_FALLBACK_CHARS + 1
    /\ xres.text = DecodedInput /\ xres.source = "text_fallback"

\* C5: an upload longer than MAX_PDF_BYTES is never rejected: the request
\* goes on to extraction, which runs on the first MAX_PDF_BYTES bytes.
C5_OversizedNeverRejected ==
    (entry = "upload" /\ BytesLen(pdf_bytes) > MAX_PDF_BYTES /\ pc = "done")
        => /\ http # 413
           /\ Returned
           /\ xbytes = Slice(pdf_bytes, MAX_PDF_BYTES)

\* The text parse_resume ends up with: the extracted text, or the text
\* argument when the bytes yield nothing.
TextParsed ==
    Strip(IF (~Returned \/ xres.text = EmptyStr) /\ text_arg # EmptyStr
          THEN text_arg ELSE xres.text)

\* C6: when the stripped text parse_resume ends up with has fewer than 40
\* characters, the result has the key "error" and none of the profile fields.
C6_ShortTextIsError ==
    (parsed # NotParsed /\ StrLen(TextParsed) < MIN_PARSE_CHARS)
        => "error" \in DOMAIN parsed /\ DOMAIN parsed \cap ProfileFields = {}

\* C6 witness: the plain-text fallback accepted a text of 31 to 39 characters
\* and parse_resume answered with the error result.
C6_Witness ==
    /\ parsed # NotParsed /\ Returned /\ xres.source = "text_fallback"
    /\ StrLen(TextParsed) > MIN_FALLBACK_CHARS /\ StrLen(TextParsed) < MIN_PARSE_CHARS
    /\ "error" \in DOMAIN parsed

\* The request is past the check of the parse result (match.py:69-74).
PastParseCheck ==
    /\ entry = "upload"
    /\ \/ pc \in {"u_embed", "u_fetch", "u_prepare", "u_persist", "u_score"}
       \/ http \in {200, 404, 500}
       \/ matches_list # <<>>

\* C7: in upload_and_match no step after the parse check, the scoring loop
\* in particular, runs when parse_resume reported an error: the parse gave a
\* profile from at least 40 characters of text.
C7_NoScoringAfterParseError ==
    PastParseCheck
        => /\ "error" \notin DOMAIN parsed
           /\ "raw_text" \in DOMAIN parsed
           /\ StrLen(parsed.raw_text) >= MIN_PARSE_CHARS

\* C7 witness: a request that scored its candidates and answered 200.
C7_Witness ==
    /\ entry = "upload" /\ pc = "done" /\ http = 200 /\ Len(matches_list) >= 1

\* C8: SentenceTransformer is constructed at most once, and all callers of
\* get_model that returned hold the same handle.
C8_SingleInitialization ==
    /\ built <= 1
    /\ \A t, u \in DOMAIN tpc :
         (tpc[t] = "returned" /\ tpc[u] = "returned") => got[t] = got[u]

\* The weighted sum of C9 in units of 1 / (100 * Scale), clamped to [0, 1].
ClaimedScore(sub) ==
    LET total == 45 * sub.skill + 25 * sub.emb + 15 * sub.role + 6 * sub.exp
                 + 4 * sub.avail + Min(2 * Cardinality(sub.shared), 12) * Scale
    IN  IF total < 0 THEN 0 ELSE IF total > 100 * Scale THEN 100 * Scale ELSE total

\* C9: the score match_user_to_project returns lies in [0, 1] and equals
\* clamp01(0.45 skill + 0.25 embedding + 0.15 role + 0.06 experience
\* + 0.04 availability + min(0.02 |shared_skills|, 0.12)).
C9_ScoreIsClampedWeightedSum ==
    m_out.called
        => /\ m_out.match.score >= 0 /\ m_out.match.score <= 100 * Scale
           /\ m_out.match.score = ClaimedScore(m_out.sub)
           /\ m_out.sub.shared = m_out.match.shared_skills

\* C9 witness: a match whose boosted sum exceeds 1 and is clamped to 1.
C9_Witness ==
    /\ m_out.called
    /\ m_out.match.score = 100 * Scale
    /\ 45 * m_out.sub.skill + 25 * m_out.sub.emb + 15 * m_out.sub.role
       + 6 * m_out.sub.exp + 4 * m_out.sub.avail
       + Min(2 * Cardinality(m_out.sub.shared), 12) * Scale > 100 * Scale

\* C10: each of the five sub-scores of match_user_to_project lies in [0, 1].
C10_SubScoresInUnitInterval ==
    m_out.called
        => \A s \in {m_out.sub.skill, m_out.sub.emb, m_out.sub.role,
                     m_out.sub.exp, m_out.sub.avail} : s >= 0 /\ s <= Scale

\* The value C11 gives for the skill sub-score, from the sets of normalized
\* skills.
ClaimedSkillOverlap(user_skills, required_skills) ==
    LET user_keys == {normalize_skill(k) : k \in SeqToSet(user_skills)}
        req_keys == {normalize_skill(k) : k \in SeqToSet(required_skills)}
    IN  IF required_skills = <<>> THEN Pct(50)
        ELSE Min((Cardinality(user_keys \cap req_keys) * Scale) \div Cardinality(req_keys)
                 + Min(5 * Cardinality(user_keys \ req_keys), 20) * (Scale \div 100),
                 Scale)

\* C11: calculate_skill_overlap returns 0.5 and two empty lists when
\* required_skills is empty; otherwise min(|shared| / |required normalized|
\* + min(0.05 |user normalized minus required normalized|, 0.2), 1.0), skills
\* compared after normalize_skill and equal keys counted once.
C11_SkillOverlapFormula ==
    m_out.called
        => /\ m_out.sub.skill = ClaimedSkillOverlap(m_user.skills, m_proj.required_skills)
           /\ m_proj.required_skills = <<>>
                => /\ m_out.sub.skill = Pct(50)
                   /\ m_out.sub.shared = {} /\ m_out.sub.complementary = {}
           /\ Cardinality(m_out.sub.shared)
                = Cardinality({normalize_skill(k) : k \in SeqToSet(m_user.skills)}
                              \cap {normalize_skill(k) : k \in SeqToSet(m_proj.required_skills)})

\* C11 witness: the project repeats a skill under another spelling, the user
\* shares it and has more than four skills of its own, and the score is
\* below 1.
C11_Witness ==
    /\ m_out.called
    /\ Len(m_proj.required_skills)
         > Cardinality({normalize_skill(k) : k \in SeqToSet(m_proj.required_skills)})
    /\ Cardinality(m_out.sub.shared) >= 1
    /\ Cardinality(m_out.sub.complementary) > 4
    /\ m_out.sub.skill < Scale

RankCalled == c_op = "rank_candidates" /\ c_out.called

\* C12: the list rank_candidates returns has at most top_k elements, for
\* every list of candidates and every integer top_k.  No list has fewer than
\* 0 elements: for a negative top_k the formula asks for the empty list.
C12_AtMostTopK ==
    RankCalled => Len(c_out.value) <= Max(c_in.top_k, 0)

\* C13: the list rank_candidates returns is non-increasing in score; of two
\* results of equal score the one with more shared skills is not after the
\* other; results equal in both keep the order of their candidates.
C13_RankedStable ==
    RankCalled
        => \A i, j \in DOMAIN c_out.value :
             i < j => LET a == c_out.value[i]
                          b == c_out.value[j]
                      IN  /\ a.score >= b.score
                          /\ a.score = b.score
                               => Cardinality(a.shared_skills) >= Cardinality(b.shared_skills)
                          /\ (a.score = b.score
                                /\ Cardinality(a.shared_skills) = Cardinality(b.shared_skills))
                               => a.candidate_index < b.candidate_index

\* C13 witness: three results of the same score; the one with more shared
\* skills came last in the input and is ranked first, the two others are
\* equal in both keys and keep their input order.
C13_Witness ==
    /\ RankCalled /\ Len(c_out.value) = 3
    /\ c_out.value[1].score = c_out.value[3].score
    /\ c_out.value[1].candidate_index = 3
    /\ Cardinality(c_out.value[1].shared_skills) > Cardinality(c_out.value[2].shared_skills)
    /\ Cardinality(c_out.value[2].shared_skills) = Cardinality(c_out.value[3].shared_skills)
    /\ c_out.value[2].candidate_index = 1 /\ c_out.value[3].candidate_index = 2

\* C14: a failure while scoring one candidate never aborts the batch.  In
\* rank_candidates the call returns, and with top_k no smaller than the
\* number of candidates the results are those of exactly the candidates whose
\* scoring did not fail; the upload-and-match request is never answered with
\* the error of a failed scoring loop.
C14_FailureNeverAbortsBatch ==
    /\ RankCalled
         => /\ ~c_out.raised
            /\ c_in.top_k >= Len(c_in.candidates)
                 => {c_out.value[i].candidate_index : i \in DOMAIN c_out.value}
                      = {i \in DOMAIN c_in.candidates :
                            ~MatchRaises(c_in.candidates[i], c_in.project_data)}
    /\ entry = "upload" => http # 500

\* C15: every result rank_candidates returns carries as target_id the id of
\* the candidate it scored.
C15_TargetIsCandidate ==
    RankCalled
        => \A i \in DOMAIN c_out.value :
             c_out.value[i].target_id
               = [str |-> c_in.candidates[c_out.value[i].candidate_index].id]

\* C16: ensure_embedding never raises; it returns the neutral default vector
\* when the wrapper has no engine or the embedder fails, and otherwise the
\* computed vector as a list.
C16_EnsureEmbeddingTotal ==
    (c_op = "ensure_embedding" /\ c_out.called)
        => /\ ~c_out.raised
           /\ c_out.value = IF ~c_in.engine_loaded \/ c_in.out.kind = "error"
                            THEN DefaultEmbedding
                            ELSE [kind |-> "list", v |-> c_in.out.v]

\* C16 witness: the engine is loaded, the embedder raises, and the call
\* returns the default vector.
C16_Witness ==
    /\ c_op = "ensure_embedding" /\ c_out.called
    /\ c_in.engine_loaded /\ c_in.out.kind = "error"
    /\ ~c_out.raised /\ c_out.value = DefaultEmbedding

\* C17: cosine_similarity raises for no pair of vectors, and returns 0.0
\* whenever one of the two has zero magnitude.
C17_CosineNeverRaises ==
    (c_op = "cosine_similarity" /\ c_out.called)
        => /\ ~c_out.raised
           /\ (Dot(c_in.vec1, c_in.vec1) = 0 \/ Dot(c_in.vec2, c_in.vec2) = 0)
                => c_out.value = 0

\* C18: for the text "React, ReactJS, react.js" skill extraction yields
\* exactly one skill: skills_by_category is {frontend: [react]} and
\* all_skills is {react}.
C18_ReactSynonymsCollapse ==
    (c_op = "extract_skills" /\ c_out.called /\ c_in.text = "React, ReactJS, react.js")
        => /\ c_out.value.skills_by_category = [cat \in {"frontend"} |-> {"react"}]
           /\ c_out.value.all_skills = {"react"}

\* C19: extract_experience_years returns the maximum N over the
\* "<N>[+] years|yrs [of] experience" phrases of the text, and 0 when there
\* is none.
C19_MaxYears ==
    (c_op = "extract_experience_years" /\ c_out.called)
        => c_out.value = MaxOf(<<0>> \o c_in.stated)

\* C20: for every record kind (profile, project, teammate request) each
\* skills phrase of the synthesized text lists at most 20 skills.
C20_AtMostTwentySkills ==
    (c_op = "create_text" /\ c_out.called)
        => \A i \in DOMAIN c_out.value :
             c_out.value[i].label \in SkillLabels
                => Len(c_out.value[i].items) <= SKILLS_IN_TEXT

\* The skills of a record in the order the record lists them (a dict of
\* categories lists its categories in insertion order).
InputSkills(kind, record) ==
    CASE kind = "profile" -> record.skills.v
      [] kind = "profile_by_category" ->
           record.skills_by_category.v.frontend \o record.skills_by_category.v.backend
      [] kind = "project" -> record.required_skills.v
      [] OTHER -> record.looking_for_skills.v
FirstIndex(q, x) == CHOOSE i \in DOMAIN q : q[i] = x /\ \A j \in 1..(i - 1) : q[j] # x
\* items lists elements of q, each once, in the order of their first
\* occurrence in q.
InOrderOf(items, q) ==
    /\ \A i \in DOMAIN items : items[i] \in SeqToSet(q)
    /\ \A i, j \in DOMAIN items :
         i < j => FirstIndex(q, items[i]) < FirstIndex(q, items[j])
TextOf(kind, record, hash_order) ==
    CASE kind \in {"profile", "profile_by_category"} -> create_profile_text(record, hash_order)
      [] kind = "project" -> create_project_text(record, hash_order)
      [] OTHER -> create_teammate_request_text(record)

\* C21: create_profile_text and create_project_text are deterministic and
\* order-preserving: whatever iteration order the process gives a set, a
\* call on the same record returns the same text, and each skills phrase
\* lists the skills in the order the input record has them.
C21_DeterministicOrderPreserving ==
    (c_op = "create_text" /\ c_out.called /\ c_in.kind # "teammate_request")
        => /\ \A o \in {"asc", "desc"} : TextOf(c_in.kind, c_in.record, o) = c_out.value
           /\ \A i \in DOMAIN c_out.value :
                c_out.value[i].label \in SkillLabels
                    => InOrderOf(c_out.value[i].items, InputSkills(c_in.kind, c_in.record))

\* C22: normalize_skill is idempotent: normalizing its result again returns
\* the result unchanged, for every skill string.
C22_NormalizeIdempotent ==
    (c_op = "normalize_skill" /\ c_out.called)
        => normalize_skill(c_out.value) = c_out.value

\* The experience fit as the claim states it, its cases read in the order
\* given: inside the range, else below the minimum, else above the maximum.
ClaimedExperienceFit(user_exp, min, max) ==
    IF min <= user_exp /\ user_exp <= max THEN Scale
    ELSE IF user_exp < min THEN Max(Pct(50), Scale - Pct(15) * (min - user_exp))
    ELSE Max(Pct(70), Scale - Pct(5) * (user_exp - max))
ExperienceFitCalled == c_op = "calculate_experience_fit" /\ c_out.called

\* C23: calculate_experience_fit returns 1.0 inside [min, max],
\* max(0.5, 1.0 - 0.15*gap) below the minimum and max(0.7, 1.0 - 0.05*gap)
\* above the maximum; a user above the maximum by a gap never scores lower
\* than the user below the minimum by the same gap.
C23_ExperienceFit ==
    ExperienceFitCalled
        => LET lo == c_in.required_exp_min
               hi == c_in.required_exp_max
               gap == lo - c_in.user_exp
           IN  /\ c_out.value = ClaimedExperienceFit(c_in.user_exp, lo, hi)
               /\ (gap > 0 /\ hi + gap >= lo)
                    => calculate_experience_fit(hi + gap, lo, hi) >= c_out.value
\* A user four years below the minimum scores the floor 0.5; four years above
\* the maximum the score is still 0.8.
C23_Witness ==
    /\ ExperienceFitCalled
    /\ c_in.required_exp_min - c_in.user_exp = 4
    /\ c_in.required_exp_min <= c_in.required_exp_max
    /\ c_out.value = Pct(50)
    /\ calculate_experience_fit(c_in.required_exp_max + 4, c_in.required_exp_min,
                                c_in.required_exp_max) = Pct(80)

\* dict.get("embedding") of a missing key is None; None and the empty list
\* are the absent embeddings.
Absent(e) == e.kind = "None" \/ e.v = <<>>

\* C24: in match_user_to_project, when the embedding of either side is
\* absent the embedding sub-score is 0.5, the final score is computed with
\* that 0.5, and the call does not raise.
C24_AbsentEmbeddingIsNeutral ==
    (m_out.called /\ (Absent(Get(m_user, "embedding", NoEmb))
                      \/ Absent(Get(m_proj, "embedding", NoEmb))))
        => /\ ~MatchRaises(m_user, m_proj)
           /\ m_out.sub.emb = Pct(50)
           /\ m_out.match.score = FinalScore([m_out.sub EXCEPT !.emb = Pct(50)])
\* The user has an embedding and the project has none.
C24_Witness ==
    /\ m_out.called
    /\ ~Absent(m_user.embedding) /\ m_proj.embedding = NoEmb
    /\ m_out.sub.emb = Pct(50)

\* The sentences of a reasons list in their fixed order, and the condition
\* the claim gives for each.
ReasonOrder == <<"required_skills_matched", "strong_skill_match", "role_fit",
                 "bonus_skills", "profile_similarity">>
ReasonRank(kind) == CHOOSE i \in DOMAIN ReasonOrder : ReasonOrder[i] = kind
ClaimedCondition(kind) ==
    LET shared == Cardinality(m_out.match.shared_skills)
        required == Len(Get(m_proj, "required_skills", <<>>))
    IN  CASE kind = "required_skills_matched" -> shared > 0
          [] kind = "strong_skill_match" -> shared * 10 >= required * 8 /\ shared >= 1
          [] kind = "role_fit" -> m_out.sub.matched_roles # {}
          [] kind = "bonus_skills" -> Cardinality(m_out.match.complementary_skills) >= 3
          [] kind = "profile_similarity" -> m_out.sub.emb > Pct(70)

\* C25: the reasons of a match are a subsequence of [skill-match count,
\* strong match, role fit, bonus skills, profile similarity]: each sentence
\* at most once, in that order, and present exactly when its condition
\* holds; in "N/M required skills matched" N is the number of shared skills,
\* M the required count, and N <= M.
C25_ReasonsInFixedOrder ==
    m_out.called
        => LET rs == m_out.match.reasons
           IN  /\ \A i \in DOMAIN rs :
                    /\ rs[i].kind \in SeqToSet(ReasonOrder)
                    /\ ClaimedCondition(rs[i].kind)
               /\ \A i, j \in DOMAIN rs :
                    i < j => ReasonRank(rs[i].kind) < ReasonRank(rs[j].kind)
               /\ \A k \in SeqToSet(ReasonOrder) :
                    ClaimedCondition(k) => \E i \in DOMAIN rs : rs[i].kind = k
               /\ \A i \in DOMAIN rs :
                    rs[i].kind = "required_skills_matched"
                        => /\ rs[i].n = Cardinality(m_out.match.shared_skills)
                           /\ rs[i].m = Len(Get(m_proj, "required_skills", <<>>))
                           /\ rs[i].n <= rs[i].m
\* All five sentences at once.
C25_Witness ==
    /\ m_out.called
    /\ Len(m_out.match.reasons) = Len(ReasonOrder)

\* C26: in the result of extract_hackathon_wins the total is the sum of the
\* five per-tier counts, the score is 10*first + 7*second + 5*third +
\* 3*finalist + participant, has_hackathon_experience is true exactly when
\* the text has a keyword hit, and every hit (every occurrence of a
\* keyword) is tallied in one tier, so that the total is the number of hits.
C26_AchievementSignal ==
    (c_op = "extract_hackathon_wins" /\ c_out.called)
        => LET r == c_out.value
               w == r.wins_breakdown
           IN  /\ r.total_hackathons = w["first"] + w["second"] + w["third"]
                                       + w["finalist"] + w["participant"]
               /\ r.hackathon_score = 10 * w["first"] + 7 * w["second"] + 5 * w["third"]
                                      + 3 * w["finalist"] + w["participant"]
               /\ r.has_hackathon_experience <=> c_in.hits > 0
               /\ r.total_hackathons = c_in.hits

\* C27: the committed embedding of a project is never the neutral default
\* that ensure_embedding hands back when the embedder fails: the default
\* serves the scoring of the request only.
C27_DefaultNeverPersisted ==
    \A i \in DOMAIN db : db[i].embedding # DefaultEmbedding

\* C28: when both sides carry the neutral default vector, the embedding
\* sub-score of match_user_to_project is at most the neutral 0.5 and the
\* reasons have no "Profile similarity" sentence.
C28_DefaultVectorsStayNeutral ==
    (/\ m_out.called
     /\ Get(m_user, "embedding", NoEmb) = DefaultEmbedding
     /\ Get(m_proj, "embedding", NoEmb) = DefaultEmbedding)
        => /\ m_out.sub.emb <= Pct(50)
           /\ \A i \in DOMAIN m_out.match.reasons :
                m_out.match.reasons[i].kind # "profile_similarity"

InRoom(s) == \E room \in DOMAIN active_connections : s \in SeqToSet(active_connections[room])

\* C29: active_connections holds exactly the sockets whose handler is still
\* running: a socket is in a room's list if and only if its handler is
\* between connect and its end, and no broadcast sends to a socket whose
\* handler has ended.
C29_OnlyLiveSockets ==
    /\ \A s \in DOMAIN h_pc : InRoom(s) <=> h_pc[s] \in {"receive", "broadcast"}
    /\ stale_sends = {}

\* C30: the matches table has at most one row for a user and a project, and
\* the action of that row is the action of the request that committed last.
C30_OneRowPerPair ==
    \A pair \in DOMAIN last_commit :
        LET found == RowsOf(rows, pair[1], pair[2])
        IN  /\ Cardinality(found) <= 1
            /\ \A i \in found : rows[i].action = last_commit[pair]

====
